---- MODULE Spec2Model ----
(***************************************************************************)
(* A model of the two pipelines of the repository.                         *)
(*                                                                         *)
(*   Challenge_1a/process_pdfs.py   outline extraction (EnhancedOutline-   *)
(*                                  Extractor, main)                       *)
(*   Challenge_1b/src/pdf_parser.py parse_pdf_to_chunks                    *)
(*   Challenge_1b/src/semantic_searcher.py  get_final_score, rank_chunks   *)
(*   Challenge_1b/src/main.py       run_analysis                           *)
(*                                                                         *)
(* Python strings are TLA+ strings; TLC evaluates Len, Head, Tail, SubSeq  *)
(* and \o on them.  Font sizes are integers in tenths of a point, scores   *)
(* are integers in units of 1/100000, confidences are integers in          *)
(* hundredths.                                                             *)
(***************************************************************************)
EXTENDS Integers, Sequences, FiniteSets, TLC

VARIABLES
    \* ---- parse_pdf_to_chunks (pdf_parser.py) ----
    pdf,                      \* the opened document: a sequence of pages
    ppc,                      \* position of the parser
    page_num,                 \* 0-based index of the page being processed
    block_idx,                \* index of the next block of that page
    chunks,                   \* chunks emitted so far
    current_section_title,
    current_paragraph_texts,
    paragraph_start_page,
    body_font_size,
    buffer_src,               \* history: the block each buffered text came from
    title_src,                \* history: the block the current title came from
    chunk_src,                \* history: per chunk, the blocks of its text and title
    \* ---- get_final_score (semantic_searcher.py) ----
    spc,                      \* position of the call
    base_score,
    section_title,
    persona,
    final_score,
    \* ---- run_analysis (Challenge_1b/src/main.py) ----
    rpc,                      \* position of run_analysis
    collection,               \* the collection directory: input file, PDFs, models
    doc_i,                    \* index of the next entry of documents_to_process
    all_chunks,
    model_path,
    ranked_results,
    result_i,                 \* index of the next ranked result the filter reads
    final_results,
    seen_texts,
    doc_counts,
    output_data,              \* the written artifact, <<>> while none is written
    \* ---- main and process_pdf (Challenge_1a/process_pdfs.py) ----
    opc,                      \* position of main
    input_dir,                \* the input directory: whether it exists, its files
    pdf_files,                \* the PDF files of the input directory
    file_i,                   \* index of the next file
    outputs,                  \* the JSON written per file, in order
    found,                    \* history: per file, the path taken and the headings
                              \* accepted before post-processing
    \* ---- is_likely_heading, determine_heading_level (process_pdfs.py) ----
    cpc,                      \* position of the call
    element,                  \* the text element classified
    font_stats,
    is_heading,
    confidence,
    level,
    previous                  \* history: the element and the confidence of the
                              \* preceding call of the loop over the elements

parser_vars == <<pdf, ppc, page_num, block_idx, chunks, current_section_title,
                 current_paragraph_texts, paragraph_start_page, body_font_size,
                 buffer_src, title_src, chunk_src>>
score_vars == <<spc, base_score, section_title, persona, final_score>>
run_vars == <<rpc, collection, doc_i, all_chunks, model_path, ranked_results,
              result_i, final_results, seen_texts, doc_counts, output_data>>
outline_vars == <<opc, input_dir, pdf_files, file_i, outputs, found>>
classify_vars == <<cpc, element, font_stats, is_heading, confidence, level, previous>>

vars == <<parser_vars, score_vars, run_vars, outline_vars, classify_vars>>

(***************************************************************************)
(* Python string operations                                                *)
(***************************************************************************)
Char(s, i) == SubSeq(s, i, i)

UpperAlpha == "ABCDEFGHIJKLMNOPQRSTUVWXYZ"
LowerAlpha == "abcdefghijklmnopqrstuvwxyz"
DigitChars == {"0", "1", "2", "3", "4", "5", "6", "7", "8", "9"}
UpperChars == {Char(UpperAlpha, i) : i \in 1..26}
LowerChars == {Char(LowerAlpha, i) : i \in 1..26}
\* str.isspace() for the ASCII characters the documents hold
Whitespace == {" ", "\t", "\n", "\r", "\f"}

\* str.lower() on one character
LowerChar(c) ==
    IF c \in UpperChars
    THEN Char(LowerAlpha, CHOOSE i \in 1..26 : Char(UpperAlpha, i) = c)
    ELSE c

\* the strings pieces[lo..hi] concatenated, by halves
RECURSIVE ConcatRange(_, _, _)
ConcatRange(pieces, lo, hi) ==
    IF lo > hi THEN ""
    ELSE IF lo = hi THEN pieces[lo]
    ELSE LET mid == (lo + hi) \div 2
         IN  ConcatRange(pieces, lo, mid) \o ConcatRange(pieces, mid + 1, hi)

\* "".join(texts)
Concat(texts) == ConcatRange(texts, 1, Len(texts))

\* str.lower()
Lower(s) == Concat([i \in 1..Len(s) |-> LowerChar(Char(s, i))])

\* str.strip()
Strip(s) ==
    LET kept == {i \in 1..Len(s) : Char(s, i) \notin Whitespace}
    IN  IF kept = {} THEN ""
        ELSE SubSeq(s, CHOOSE i \in kept : \A j \in kept : i <= j,
                       CHOOSE i \in kept : \A j \in kept : i >= j)

\* sub in s
Contains(sub, s) ==
    \E i \in 1..(Len(s) - Len(sub) + 1) : SubSeq(s, i, i + Len(sub) - 1) = sub

\* s.endswith(suf)
EndsWith(s, suf) ==
    /\ Len(suf) <= Len(s)
    /\ SubSeq(s, Len(s) - Len(suf) + 1, Len(s)) = suf

\* len(s.split()): the number of maximal runs of non-whitespace
WordCount(s) ==
    Cardinality({i \in 1..Len(s) :
        /\ Char(s, i) \notin Whitespace
        /\ (i = 1 \/ Char(s, i - 1) \in Whitespace)})

\* str.isupper(): at least one cased character and no lowercase one
IsUpper(s) ==
    /\ \E i \in 1..Len(s) : Char(s, i) \in UpperChars
    /\ \A i \in 1..Len(s) : Char(s, i) \notin LowerChars

\* str.isdigit()
IsDigit(s) == s # "" /\ \A i \in 1..Len(s) : Char(s, i) \in DigitChars

\* s.replace(old, new) for a non-empty old that cannot overlap itself (the
\* two uses, "-\n" and "\n"): every occurrence is replaced
Replace(s, old, new) ==
    LET n       == Len(old)
        IsAt(i) == i >= 1 /\ i + n - 1 <= Len(s) /\ SubSeq(s, i, i + n - 1) = old
        Piece(i) == IF IsAt(i) THEN new
                    ELSE IF \E j \in (i - n + 1)..(i - 1) : IsAt(j) THEN ""
                    ELSE Char(s, i)
    IN  Concat([i \in 1..Len(s) |-> Piece(i)])

\* re.sub(r'\s+', ' ', s)
CollapseWhitespace(s) ==
    LET Piece(i) == IF Char(s, i) \notin Whitespace THEN Char(s, i)
                    ELSE IF i = 1 \/ Char(s, i - 1) \notin Whitespace THEN " "
                    ELSE ""
    IN  Concat([i \in 1..Len(s) |-> Piece(i)])

\* sep.join(texts)
Join(sep, texts) ==
    Concat([i \in 1..(2 * Len(texts) - 1) |->
               IF i % 2 = 1 THEN texts[(i + 1) \div 2] ELSE sep])

\* the sequences seqs[i], seqs[i + 1], ... concatenated
RECURSIVE FlattenFrom(_, _)
FlattenFrom(seqs, i) ==
    IF i > Len(seqs) THEN <<>> ELSE seqs[i] \o FlattenFrom(seqs, i + 1)

Flatten(seqs) == FlattenFrom(seqs, 1)

\* round(x) of a size given in tenths: to the nearest integer, halves to even
PyRound(tenths) ==
    LET q == tenths \div 10
        r == tenths % 10
    IN  IF r < 5 THEN q
        ELSE IF r > 5 THEN q + 1
        ELSE IF q % 2 = 0 THEN q ELSE q + 1

\* Counter(values).most_common(1)[0][0]: the most frequent value, the one
\* counted first among equally frequent ones
MostCommon(values) ==
    LET Count(v) == Cardinality({i \in 1..Len(values) : values[i] = v})
        First(v) == CHOOSE i \in 1..Len(values) :
                        /\ values[i] = v
                        /\ \A j \in 1..(i - 1) : values[j] # v
    IN  CHOOSE v \in {values[i] : i \in 1..Len(values)} :
            \A w \in {values[i] : i \in 1..Len(values)} :
                \/ Count(v) > Count(w)
                \/ Count(v) = Count(w) /\ First(v) <= First(w)

(***************************************************************************)
(* Challenge_1b/src/pdf_parser.py                                          *)
(*                                                                         *)
(* A document is [opens, readable, pages]; a page is [height, blocks]; a   *)
(* block is [type, top, bottom, lines] with top = bbox[1], bottom =        *)
(* bbox[3]; a line is a sequence of spans [text, size, flags], size in     *)
(* tenths of a point.                                                      *)
(***************************************************************************)
HEADER_FOOTER_MARGIN == 50
MIN_PARAGRAPH_LENGTH == 40

\* The pairs (body size, span size in tenths) at which the double product
\* body_font_size * 1.15 falls just below the exact product, so that a span
\* of exactly 1.15 times the body size counts as larger.
LargerByRounding ==
    {<<6, 69>>, <<12, 138>>, <<14, 161>>, <<22, 253>>, <<24, 276>>,
     <<28, 322>>, <<34, 391>>, <<38, 437>>}

\* is_likely_heading of pdf_parser.py
parser_is_likely_heading(span, body) ==
    IF Strip(span.text) = "" THEN FALSE
    ELSE
      LET is_bold     == (span.flags \div 16) % 2 = 1
          is_larger   == \/ span.size * 2 > body * 23
                         \/ <<body, span.size>> \in LargerByRounding
          is_all_caps == IsUpper(span.text) /\ Len(span.text) > 4
      IN  /\ is_bold \/ is_larger \/ is_all_caps
          /\ WordCount(span.text) < 12
          /\ ~EndsWith(Strip(span.text), ".")

clean_text(text) ==
    CollapseWhitespace(Strip(Replace(Replace(text, "-\n", ""), "\n", " ")))

\* the spans of a block, line by line
BlockSpans(block) == Flatten(block.lines)

\* pass 1: the most common rounded span size of the text blocks, 10 if none
BodyFontSize(doc) ==
    LET blocks == Flatten([p \in 1..Len(doc.pages) |-> doc.pages[p].blocks])
        text   == SelectSeq(blocks, LAMBDA b : b.type = 0)
        spans  == Flatten([i \in 1..Len(text) |-> BlockSpans(text[i])])
        sizes  == [i \in 1..Len(spans) |-> PyRound(spans[i].size)]
    IN  IF sizes = <<>> THEN 10 ELSE MostCommon(sizes)

\* block_text: the texts of the block's spans, joined and stripped
BlockText(block) ==
    Strip(Concat([i \in 1..Len(BlockSpans(block)) |-> BlockSpans(block)[i].text]))

\* the header/footer band test
InMargin(block, page_height) ==
    \/ block.top < HEADER_FOOTER_MARGIN
    \/ block.bottom > page_height - HEADER_FOOTER_MARGIN

\* a block the loop skips: not text, in the band, empty or digits only
Discarded(block, page_height) ==
    \/ block.type # 0
    \/ InMargin(block, page_height)
    \/ BlockText(block) = ""
    \/ IsDigit(BlockText(block))

\* block.get("lines", [{}])[0].get("spans", [{}])[0] raises IndexError on a
\* first line without spans
FirstSpanRaises(block) == block.lines # <<>> /\ block.lines[1] = <<>>

\* The parser's loop state: st.chunks, st.title, st.texts, st.start are
\* chunks, current_section_title, current_paragraph_texts and
\* paragraph_start_page; st.raised says an exception left the function;
\* st.bsrc, st.tsrc, st.csrc are the history of where texts came from.
ParserStart ==
    [chunks |-> <<>>, title |-> "Introduction", texts |-> <<>>, start |-> 0,
     raised |-> FALSE, bsrc |-> <<>>, tsrc |-> <<>>, csrc |-> <<>>]

\* the top of the page loop, page index pn (0-based)
BeginPage(st, pn) ==
    IF pn > 0 /\ st.texts # <<>>
    THEN [st EXCEPT !.start = pn]
    ELSE [st EXCEPT !.start = pn + 1]

\* the paragraph buffer finalised: a chunk if it is non-empty and long enough
EmitChunk(st, filename) ==
    LET text_content == clean_text(Join(" ", st.texts))
    IN  IF st.texts # <<>> /\ Len(text_content) >= MIN_PARAGRAPH_LENGTH
        THEN [st EXCEPT !.chunks = Append(@, [document |-> filename,
                                              page_number |-> st.start,
                                              section_title |-> st.title,
                                              text |-> text_content]),
                        !.csrc = Append(@, [texts |-> st.bsrc, title |-> st.tsrc])]
        ELSE st

\* HandleBlock without the header/footer band test
MutHandleBlock(st, doc, pn, i, body, filename) ==
    LET block == doc.pages[pn + 1].blocks[i]
        here  == <<[page |-> pn + 1, block |-> i]>>
    IN  IF block.type # 0 \/ BlockText(block) = "" \/ IsDigit(BlockText(block))
        THEN st
        ELSE IF FirstSpanRaises(block) THEN [st EXCEPT !.raised = TRUE]
        ELSE IF parser_is_likely_heading(block.lines[1][1], body)
        THEN [EmitChunk(st, filename) EXCEPT
                  !.title = clean_text(BlockText(block)),
                  !.texts = <<>>,
                  !.start = pn + 1,
                  !.bsrc = <<>>,
                  !.tsrc = here]
        ELSE [st EXCEPT !.texts = Append(@, BlockText(block)),
                        !.bsrc = @ \o here]

\* one iteration of the block loop on block i of page pn (0-based)
HandleBlock(st, doc, pn, i, body, filename) ==
    LET block == doc.pages[pn + 1].blocks[i]
        here  == <<[page |-> pn + 1, block |-> i]>>
    IN  IF Discarded(block, doc.pages[pn + 1].height) THEN st
        ELSE IF FirstSpanRaises(block) THEN [st EXCEPT !.raised = TRUE]
        ELSE IF parser_is_likely_heading(block.lines[1][1], body)
        THEN [EmitChunk(st, filename) EXCEPT
                  !.title = clean_text(BlockText(block)),
                  !.texts = <<>>,
                  !.start = pn + 1,
                  !.bsrc = <<>>,
                  !.tsrc = here]
        ELSE [st EXCEPT !.texts = Append(@, BlockText(block)),
                        !.bsrc = @ \o here]

\* the block loop of page pn from block i on; it stops at an exception
RECURSIVE PageBlocks(_, _, _, _, _, _)
PageBlocks(st, doc, pn, i, body, filename) ==
    IF st.raised \/ i > Len(doc.pages[pn + 1].blocks) THEN st
    ELSE PageBlocks(HandleBlock(st, doc, pn, i, body, filename),
                    doc, pn, i + 1, body, filename)

\* the page loop from page pn on
RECURSIVE PageLoop(_, _, _, _, _)
PageLoop(st, doc, pn, body, filename) ==
    IF st.raised \/ pn >= Len(doc.pages) THEN st
    ELSE PageLoop(PageBlocks(BeginPage(st, pn), doc, pn, 1, body, filename),
                  doc, pn + 1, body, filename)

\* parse_pdf_to_chunks: [raised, chunks]; a document that cannot be opened
\* yields no chunk; an exception while the pages are read leaves the function
parse_pdf_to_chunks(doc, filename) ==
    IF ~doc.opens THEN [raised |-> FALSE, chunks |-> <<>>]
    ELSE IF ~doc.readable THEN [raised |-> TRUE, chunks |-> <<>>]
    ELSE LET st == PageLoop(ParserStart, doc, 0, BodyFontSize(doc), filename)
         IN  IF st.raised THEN [raised |-> TRUE, chunks |-> <<>>]
             ELSE [raised |-> FALSE, chunks |-> EmitChunk(st, filename).chunks]

(***************************************************************************)
(* Documents the parser is run on: pages drawn from a catalogue            *)
(***************************************************************************)
MaxPages == 3

Span(t, sz, fl) == [text |-> t, size |-> sz, flags |-> fl]
TextBlock(top, bottom, lines) ==
    [type |-> 0, top |-> top, bottom |-> bottom, lines |-> lines]
Page(blocks) == [height |-> 792, blocks |-> blocks]

BodyLong ==
    TextBlock(100, 130, << <<Span("The committee reviewed every proposal in detail before the final vote was taken", 100, 0)>> >>)
BodyShort == TextBlock(140, 160, << <<Span("Costs rose.", 100, 0)>> >>)
BodyHyphen ==
    TextBlock(200, 260, << <<Span("Inter-\n", 100, 0)>>,
                           <<Span("national  trade  grew\nfaster than any forecast had said. ", 100, 0)>> >>)
BoldSentence ==
    TextBlock(300, 330, << <<Span("Note the exceptions listed in the annex below.", 100, 16)>> >>)
HeadingBold == TextBlock(340, 360, << <<Span("Budget Overview", 100, 16)>> >>)
HeadingCaps == TextBlock(400, 420, << <<Span("RESULTS", 100, 0)>> >>)
HeaderBlock ==
    TextBlock(20, 40, << <<Span("ACME Corporation annual report, confidential draft", 80, 0)>> >>)
FooterBlock ==
    TextBlock(730, 760, << <<Span("Printed for internal circulation only, do not copy", 80, 0)>> >>)
DigitBlock == TextBlock(700, 715, << <<Span(" 17 ", 100, 0)>> >>)
ImageBlock == [type |-> 1, top |-> 300, bottom |-> 500, lines |-> <<>>]
EmptyLineBlock ==
    TextBlock(500, 540, << <<>>, <<Span("Orphan text after a line without spans", 100, 0)>> >>)

PageCatalogue ==
    { Page(<<BodyLong>>),
      Page(<<BodyShort>>),
      Page(<<HeadingBold, BodyHyphen>>),
      Page(<<BodyShort, HeadingCaps>>),
      Page(<<HeaderBlock, ImageBlock, DigitBlock, FooterBlock>>),
      Page(<<HeaderBlock, BoldSentence, FooterBlock>>),
      Page(<<EmptyLineBlock>>) }

PageSeqs(n) == UNION {[1..k -> PageCatalogue] : k \in 0..n}

\* documents that open and can be read, one that cannot be opened, one that
\* opens but whose pages cannot be read
PdfInputs ==
    {[opens |-> TRUE, readable |-> TRUE, pages |-> ps] : ps \in PageSeqs(MaxPages)}
    \cup {[opens |-> FALSE, readable |-> FALSE, pages |-> <<>>],
          [opens |-> TRUE, readable |-> FALSE, pages |-> <<>>]}

(***************************************************************************)
(* parse_pdf_to_chunks, step by step                                       *)
(***************************************************************************)
ParserFile == "report.pdf"

ParserSt ==
    [chunks |-> chunks, title |-> current_section_title,
     texts |-> current_paragraph_texts, start |-> paragraph_start_page,
     raised |-> FALSE, bsrc |-> buffer_src, tsrc |-> title_src,
     csrc |-> chunk_src]

SetParser(st) ==
    /\ chunks' = st.chunks
    /\ current_section_title' = st.title
    /\ current_paragraph_texts' = st.texts
    /\ paragraph_start_page' = st.start
    /\ buffer_src' = st.bsrc
    /\ title_src' = st.tsrc
    /\ chunk_src' = st.csrc

ParserIdle ==
    /\ ppc = "idle"
    /\ pdf = [opens |-> FALSE, readable |-> FALSE, pages |-> <<>>]
    /\ page_num = 0
    /\ block_idx = 0
    /\ body_font_size = 0
    /\ chunks = <<>>
    /\ current_section_title = ""
    /\ current_paragraph_texts = <<>>
    /\ paragraph_start_page = 0
    /\ buffer_src = <<>>
    /\ title_src = <<>>
    /\ chunk_src = <<>>

ParserInit ==
    /\ ppc = "open"
    /\ pdf \in PdfInputs
    /\ page_num = 0
    /\ block_idx = 0
    /\ body_font_size = 0
    /\ chunks = ParserStart.chunks
    /\ current_section_title = ParserStart.title
    /\ current_paragraph_texts = ParserStart.texts
    /\ paragraph_start_page = ParserStart.start
    /\ buffer_src = <<>>
    /\ title_src = <<>>
    /\ chunk_src = <<>>

\* fitz.open raises: the function returns no chunk
P_OpenFails ==
    /\ ppc = "open"
    /\ ~pdf.opens
    /\ ppc' = "done"
    /\ UNCHANGED <<pdf, page_num, block_idx, chunks, current_section_title,
                   current_paragraph_texts, paragraph_start_page,
                   body_font_size, buffer_src, title_src, chunk_src>>
    /\ UNCHANGED <<score_vars, run_vars, outline_vars, classify_vars>>

P_Open ==
    /\ ppc = "open"
    /\ pdf.opens
    /\ ppc' = "fonts"
    /\ UNCHANGED <<pdf, page_num, block_idx, chunks, current_section_title,
                   current_paragraph_texts, paragraph_start_page,
                   body_font_size, buffer_src, title_src, chunk_src>>
    /\ UNCHANGED <<score_vars, run_vars, outline_vars, classify_vars>>

\* reading the pages raises: the exception leaves the function
P_ReadFails ==
    /\ ppc = "fonts"
    /\ ~pdf.readable
    /\ ppc' = "raised"
    /\ UNCHANGED <<pdf, page_num, block_idx, chunks, current_section_title,
                   current_paragraph_texts, paragraph_start_page,
                   body_font_size, buffer_src, title_src, chunk_src>>
    /\ UNCHANGED <<score_vars, run_vars, outline_vars, classify_vars>>

P_AnalyzeFonts ==
    /\ ppc = "fonts"
    /\ pdf.readable
    /\ body_font_size' = BodyFontSize(pdf)
    /\ page_num' = 0
    /\ ppc' = "page"
    /\ UNCHANGED <<pdf, block_idx, chunks, current_section_title,
                   current_paragraph_texts, paragraph_start_page,
                   buffer_src, title_src, chunk_src>>
    /\ UNCHANGED <<score_vars, run_vars, outline_vars, classify_vars>>

P_BeginPage ==
    /\ ppc = "page"
    /\ page_num < Len(pdf.pages)
    /\ SetParser(BeginPage(ParserSt, page_num))
    /\ block_idx' = 1
    /\ ppc' = "block"
    /\ UNCHANGED <<pdf, page_num, body_font_size>>
    /\ UNCHANGED <<score_vars, run_vars, outline_vars, classify_vars>>

P_Block ==
    /\ ppc = "block"
    /\ block_idx <= Len(pdf.pages[page_num + 1].blocks)
    /\ LET st == HandleBlock(ParserSt, pdf, page_num, block_idx,
                             body_font_size, ParserFile)
       IN  /\ SetParser(st)
           /\ ppc' = IF st.raised THEN "raised" ELSE "block"
    /\ block_idx' = block_idx + 1
    /\ UNCHANGED <<pdf, page_num, body_font_size>>
    /\ UNCHANGED <<score_vars, run_vars, outline_vars, classify_vars>>

P_EndPage ==
    /\ ppc = "block"
    /\ block_idx > Len(pdf.pages[page_num + 1].blocks)
    /\ page_num' = page_num + 1
    /\ ppc' = "page"
    /\ UNCHANGED <<pdf, block_idx, chunks, current_section_title,
                   current_paragraph_texts, paragraph_start_page,
                   body_font_size, buffer_src, title_src, chunk_src>>
    /\ UNCHANGED <<score_vars, run_vars, outline_vars, classify_vars>>

\* after the last page: the remaining paragraph is saved
P_Flush ==
    /\ ppc = "page"
    /\ page_num >= Len(pdf.pages)
    /\ SetParser(EmitChunk(ParserSt, ParserFile))
    /\ ppc' = "done"
    /\ UNCHANGED <<pdf, page_num, block_idx, body_font_size>>
    /\ UNCHANGED <<score_vars, run_vars, outline_vars, classify_vars>>

ParserNext ==
    \/ P_OpenFails
    \/ P_Open
    \/ P_ReadFails
    \/ P_AnalyzeFonts
    \/ P_BeginPage
    \/ P_Block
    \/ P_EndPage
    \/ P_Flush


(***************************************************************************)
(* Challenge_1b/src/semantic_searcher.py                                   *)
(*                                                                         *)
(* A score is an integer in units of 1/100000; the factors 0.70, 1.2, 1.25 *)
(* and 1.3 are percentages, and the base scores the model draws are        *)
(* multiples of 0.01, for which every product below is exact.              *)
(***************************************************************************)
PENALIZED_TITLES ==
    {"introduction", "conclusion", "summary", "preface", "contents",
     "table of contents", "abstract", "foreword", "epilogue"}

\* the personas in the dictionary's order, each with its keywords in the
\* list's order and its boost factor in percent
ACTIONABLE_KEYWORD_BOOSTS ==
    << [key |-> "Travel Planner",
        keywords |-> <<"hotel", "restaurant", "budget", "itinerary", "plan",
                       "schedule", "activities", "packing", "tips",
                       "things to do", "nightlife", "accommodation",
                       "attractions", "transportation", "booking", "tour",
                       "guide", "travel", "destination", "sightseeing",
                       "flights">>,
        boost_factor |-> 125],
       [key |-> "Food Contractor",
        keywords |-> <<"menu", "recipe", "ingredient", "catering", "food",
                       "cuisine", "cooking", "restaurant", "chef", "kitchen",
                       "dining", "meal", "service", "nutrition",
                       "preparation", "contract", "supplier", "procurement",
                       "cost", "quality">>,
        boost_factor |-> 130],
       [key |-> "HR Professional",
        keywords |-> <<"employee", "policy", "compliance", "recruitment",
                       "hiring", "performance", "training", "onboarding",
                       "benefits", "payroll", "management", "staff",
                       "workplace", "procedures", "regulations",
                       "human resources", "personnel", "development",
                       "evaluation", "compensation">>,
        boost_factor |-> 120],
       [key |-> "Researcher",
        keywords |-> <<"methodology", "methods", "results", "findings",
                       "data", "analysis", "study", "experiment",
                       "conclusion", "discussion">>,
        boost_factor |-> 130] >>

\* the characters \w matches
WordChars == UpperChars \cup LowerChars \cup DigitChars \cup {"_"}

\* \b between positions pos and pos + 1 of s: a word character on exactly one
\* side, the ends of the string counting as non-word
WordBoundary(s, pos) ==
    LET before == pos >= 1 /\ Char(s, pos) \in WordChars
        after  == pos + 1 <= Len(s) /\ Char(s, pos + 1) \in WordChars
    IN  before # after

\* re.search(r'\b' + re.escape(keyword) + r'\b', text)
WholeWordSearch(keyword, text) ==
    \E i \in 1..(Len(text) - Len(keyword) + 1) :
        /\ SubSeq(text, i, i + Len(keyword) - 1) = keyword
        /\ WordBoundary(text, i - 1)
        /\ WordBoundary(text, i + Len(keyword) - 1)

\* the first key of ACTIONABLE_KEYWORD_BOOSTS contained in the persona,
\* both lowercased; 0 if none
BestMatchPersona(p) ==
    LET hits == {k \in 1..Len(ACTIONABLE_KEYWORD_BOOSTS) :
                    Contains(Lower(ACTIONABLE_KEYWORD_BOOSTS[k].key), Lower(p))}
    IN  IF hits = {} THEN 0 ELSE CHOOSE k \in hits : \A j \in hits : k <= j

\* step 1 with the negation misplaced: the penalty only for a Researcher
MutPenalized(title_lower, p) ==
    /\ title_lower \in PENALIZED_TITLES
    /\ p = "Researcher" /\ ~(title_lower = "conclusion")

\* step 1: whether the generic-title penalty applies
Penalized(title_lower, p) ==
    /\ title_lower \in PENALIZED_TITLES
    /\ ~(p = "Researcher" /\ title_lower = "conclusion")

\* step 2 without the keyword boost
MutBoosted(title_lower, p) == FALSE

\* step 2: whether the persona's boost applies (once per title)
Boosted(title_lower, p) ==
    LET k == BestMatchPersona(p)
    IN  /\ k # 0
        /\ \E i \in 1..Len(ACTIONABLE_KEYWORD_BOOSTS[k].keywords) :
               WholeWordSearch(ACTIONABLE_KEYWORD_BOOSTS[k].keywords[i], title_lower)

get_final_score(base, title, p) ==
    LET title_lower == Strip(Lower(title))
        penalised   == IF Penalized(title_lower, p) THEN (base * 70) \div 100 ELSE base
    IN  IF Boosted(title_lower, p)
        THEN (penalised * ACTIONABLE_KEYWORD_BOOSTS[BestMatchPersona(p)].boost_factor) \div 100
        ELSE penalised

\* rank_chunks: the scores added, the chunks sorted by final score, highest
\* first, equal scores in their input order (sorted is stable), then
\* importance_rank = position.  cosine[i] is the similarity of chunk i.
rank_chunks(cs, cosine, p) ==
    LET n == Len(cs)
        finals == SubSeq([i \in 1..n |->
                             get_final_score(cosine[i], cs[i].section_title, p)], 1, n)
        Pos(i) == Cardinality({j \in 1..n : finals[j] > finals[i]})
                  + Cardinality({j \in 1..(i - 1) : finals[j] = finals[i]}) + 1
        order == SubSeq([k \in 1..n |-> CHOOSE i \in 1..n : Pos(i) = k], 1, n)
    IN  [k \in 1..n |->
            [document |-> cs[order[k]].document,
             page_number |-> cs[order[k]].page_number,
             section_title |-> cs[order[k]].section_title,
             text |-> cs[order[k]].text,
             base_similarity_score |-> cosine[order[k]],
             final_score |-> finals[order[k]],
             importance_rank |-> k]]

(***************************************************************************)
(* get_final_score applied to drawn arguments                              *)
(***************************************************************************)
ScoreBases == {-20000, 0, 25000, 40000, 50000, 100000}
ScoreTitles ==
    {"Conclusion", "conclusion", " Conclusion ", "Conclusions", "Introduction",
     "Menu Planning", "Planet Earth", "Results and Discussion", "Summary",
     "Table of Contents", ""}
ScorePersonas ==
    {"Researcher", "researcher", "Senior researcher", "PhD Researcher in Biology",
     "Food Contractor", "Travel Planner", "HR Professional", "Student"}

ScoreIdle ==
    /\ spc = "idle"
    /\ base_score = 0
    /\ section_title = ""
    /\ persona = ""
    /\ final_score = 0

ScoreInit ==
    /\ spc = "call"
    /\ base_score \in ScoreBases
    /\ section_title \in ScoreTitles
    /\ persona \in ScorePersonas
    /\ final_score = 0

S_Score ==
    /\ spc = "call"
    /\ final_score' = get_final_score(base_score, section_title, persona)
    /\ spc' = "returned"
    /\ UNCHANGED <<base_score, section_title, persona>>
    /\ UNCHANGED <<parser_vars, run_vars, outline_vars, classify_vars>>

(***************************************************************************)
(* Challenge_1b/src/main.py: run_analysis                                  *)
(*                                                                         *)
(* A collection is [has_input, persona, documents, models, loads, sim]:    *)
(* whether challenge1b_input.json exists, its persona, its documents       *)
(* [filename, exists, pdf], the set of model paths that exist (by index in *)
(* model_paths), whether the model loads, and which similarity the         *)
(* embedding model computes.                                               *)
(***************************************************************************)
MAX_HITS_PER_DOC == 3
top_n_results == 20

model_paths ==
    <<"models/all-MiniLM-L6-v2", "../models/all-MiniLM-L6-v2",
      "./models/all-MiniLM-L6-v2">>

\* the first path taken without the test of its existence
MutFindModelPath(present) == model_paths[1]

\* the first of model_paths that exists, "" (None) if none does
FindModelPath(present) ==
    IF present = {} THEN ""
    ELSE model_paths[CHOOSE i \in present : \A j \in present : i <= j]

\* util.cos_sim of the query and a chunk text, given by the embedding model:
\* model 1 scores every text 0.50, model 2 scores by the text's length
CosineScore(sim, text) ==
    IF sim = 1 THEN 50000
    ELSE <<20000, 50000, 80000>>[(Len(text) % 3) + 1]

\* the filter's test with the per-document cap dropped
MutNoCapKeep(result, seen, counts) == result.text \notin seen

\* the filter's test with the seen-text test dropped
MutNoSeenKeep(result, seen, counts) ==
    counts[result.document] < MAX_HITS_PER_DOC

\* the diversity filter's test on one ranked result
FilterKeep(result, seen, counts) ==
    /\ result.text \notin seen
    /\ counts[result.document] < MAX_HITS_PER_DOC

\* final_results[:top_n_results]
TopN(results) ==
    SubSeq(results, 1, IF Len(results) < top_n_results THEN Len(results)
                       ELSE top_n_results)

\* the ranks of rank_chunks left as they are
MutRerank(results) == results

\* the loop assigning importance_rank = i + 1
Rerank(results) ==
    [i \in 1..Len(results) |-> [results[i] EXCEPT !.importance_rank = i]]

\* the written JSON (without the query text and the timestamp)
OutputData(coll, results, n_chunks) ==
    [metadata |->
        [input_documents |-> [i \in 1..Len(coll.documents) |-> coll.documents[i].filename],
         persona |-> coll.persona,
         total_chunks_processed |-> n_chunks,
         diversity_enforced |-> TRUE],
     extracted_sections |->
        [i \in 1..Len(results) |->
            [document |-> results[i].document,
             section_title |-> results[i].section_title,
             importance_rank |-> results[i].importance_rank,
             page_number |-> results[i].page_number]],
     subsection_analysis |->
        [i \in 1..Len(results) |->
            [document |-> results[i].document,
             refined_text |-> results[i].text,
             page_number |-> results[i].page_number]]]

(***************************************************************************)
(* Collections run_analysis is run on                                      *)
(***************************************************************************)
MaxDocs == 2
BigDocs == 7

SectionTitles ==
    <<"Menu Planning", "Conclusion", "Introduction", "Results and Discussion">>

SectionBody(tag, k) ==
    "Part " \o Char("1234", k) \o " of volume " \o tag
        \o " sets out the agreed terms in full."

\* a document of n pages, each a bold heading and a paragraph
GenPdf(tag, n) ==
    [opens |-> TRUE, readable |-> TRUE,
     pages |-> [k \in 1..n |->
                  Page(<<TextBlock(100, 120, << <<Span(SectionTitles[k], 120, 16)>> >>),
                         TextBlock(140, 300, << <<Span(SectionBody(tag, k), 100, 0)>> >>)>>)]]

Unopenable == [opens |-> FALSE, readable |-> FALSE, pages |-> <<>>]
Unreadable == [opens |-> TRUE, readable |-> FALSE, pages |-> <<>>]

DocCatalogue ==
    { [filename |-> "a.pdf", exists |-> TRUE, pdf |-> GenPdf("A", 4)],
      [filename |-> "b.pdf", exists |-> TRUE, pdf |-> GenPdf("A", 2)],
      [filename |-> "c.pdf", exists |-> FALSE, pdf |-> Unopenable],
      [filename |-> "d.pdf", exists |-> TRUE, pdf |-> Unopenable],
      [filename |-> "e.pdf", exists |-> TRUE, pdf |-> Unreadable],
      [filename |-> "f.pdf", exists |-> TRUE,
       pdf |-> [opens |-> TRUE, readable |-> TRUE,
                pages |-> <<Page(<<BodyLong>>), Page(<<HeadingCaps, BodyLong>>)>>]] }

\* BigDocs documents of four sections each, all texts different
BigCollection ==
    [d \in 1..BigDocs |->
        [filename |-> "vol" \o Char(UpperAlpha, d) \o ".pdf", exists |-> TRUE,
         pdf |-> GenPdf(Char(UpperAlpha, d), 4)]]

DocumentLists ==
    UNION {[1..k -> DocCatalogue] : k \in 0..MaxDocs} \cup {BigCollection}

\* the models directory, the persona of the request and the embedding model:
\* no model, a model that fails to load, and models that load
Settings ==
    { [persona |-> "Researcher", present |-> {}, loads |-> FALSE, sim |-> 1],
      [persona |-> "Food Contractor", present |-> {3}, loads |-> FALSE, sim |-> 1],
      [persona |-> "Researcher", present |-> {2}, loads |-> TRUE, sim |-> 1],
      [persona |-> "Researcher", present |-> {1, 3}, loads |-> TRUE, sim |-> 2],
      [persona |-> "Food Contractor", present |-> {1}, loads |-> TRUE, sim |-> 1],
      [persona |-> "Food Contractor", present |-> {2, 3}, loads |-> TRUE, sim |-> 2] }

Collections ==
    {[has_input |-> TRUE, persona |-> e.persona, documents |-> ds,
      models |-> e.present, loads |-> e.loads, sim |-> e.sim] :
        ds \in DocumentLists, e \in Settings}
    \cup {[has_input |-> FALSE, persona |-> "", documents |-> <<>>,
           models |-> {}, loads |-> FALSE, sim |-> 1]}

(***************************************************************************)
(* run_analysis, step by step                                              *)
(***************************************************************************)
RunIdle ==
    /\ rpc = "idle"
    /\ collection = [has_input |-> FALSE, persona |-> "", documents |-> <<>>,
                     models |-> {}, loads |-> FALSE, sim |-> 1]
    /\ doc_i = 0
    /\ all_chunks = <<>>
    /\ model_path = ""
    /\ ranked_results = <<>>
    /\ result_i = 0
    /\ final_results = <<>>
    /\ seen_texts = {}
    /\ doc_counts = <<>>
    /\ output_data = <<>>

RunInit ==
    /\ rpc = "start"
    /\ collection \in Collections
    /\ doc_i = 0
    /\ all_chunks = <<>>
    /\ model_path = ""
    /\ ranked_results = <<>>
    /\ result_i = 0
    /\ final_results = <<>>
    /\ seen_texts = {}
    /\ doc_counts = <<>>
    /\ output_data = <<>>

RunOnly == UNCHANGED <<parser_vars, score_vars, outline_vars, classify_vars>>

\* challenge1b_input.json is missing: the function returns
R_NoInput ==
    /\ rpc = "start"
    /\ ~collection.has_input
    /\ rpc' = "returned"
    /\ UNCHANGED <<collection, doc_i, all_chunks, model_path, ranked_results,
                   result_i, final_results, seen_texts, doc_counts, output_data>>
    /\ RunOnly

R_LoadInput ==
    /\ rpc = "start"
    /\ collection.has_input
    /\ rpc' = "parsing"
    /\ doc_i' = 1
    /\ UNCHANGED <<collection, all_chunks, model_path, ranked_results,
                   result_i, final_results, seen_texts, doc_counts, output_data>>
    /\ RunOnly

\* one iteration of the document loop on a file that exists: its chunks are
\* added, or the parser's exception leaves run_analysis
R_ParseDoc ==
    /\ rpc = "parsing"
    /\ doc_i <= Len(collection.documents)
    /\ collection.documents[doc_i].exists
    /\ LET doc_info == collection.documents[doc_i]
           parsed   == parse_pdf_to_chunks(doc_info.pdf, doc_info.filename)
       IN  IF parsed.raised
           THEN /\ rpc' = "crashed"
                /\ UNCHANGED <<doc_i, all_chunks>>
           ELSE /\ rpc' = "parsing"
                /\ doc_i' = doc_i + 1
                /\ all_chunks' = all_chunks \o parsed.chunks
    /\ UNCHANGED <<collection, model_path, ranked_results, result_i,
                   final_results, seen_texts, doc_counts, output_data>>
    /\ RunOnly

\* one iteration on a file that is not in the PDFs directory: a warning
R_SkipMissing ==
    /\ rpc = "parsing"
    /\ doc_i <= Len(collection.documents)
    /\ ~collection.documents[doc_i].exists
    /\ doc_i' = doc_i + 1
    /\ UNCHANGED <<rpc, collection, all_chunks, model_path, ranked_results,
                   result_i, final_results, seen_texts, doc_counts, output_data>>
    /\ RunOnly

\* no chunk at all: the function returns
R_NoChunks ==
    /\ rpc = "parsing"
    /\ doc_i > Len(collection.documents)
    /\ all_chunks = <<>>
    /\ rpc' = "returned"
    /\ UNCHANGED <<collection, doc_i, all_chunks, model_path, ranked_results,
                   result_i, final_results, seen_texts, doc_counts, output_data>>
    /\ RunOnly

\* no model at any of the paths: sys.exit(1)
R_ModelMissing ==
    /\ rpc = "parsing"
    /\ doc_i > Len(collection.documents)
    /\ all_chunks # <<>>
    /\ FindModelPath(collection.models) = ""
    /\ rpc' = "fatal"
    /\ UNCHANGED <<collection, doc_i, all_chunks, model_path, ranked_results,
                   result_i, final_results, seen_texts, doc_counts, output_data>>
    /\ RunOnly

R_ModelFound ==
    /\ rpc = "parsing"
    /\ doc_i > Len(collection.documents)
    /\ all_chunks # <<>>
    /\ FindModelPath(collection.models) # ""
    /\ model_path' = FindModelPath(collection.models)
    /\ rpc' = "searcher"
    /\ UNCHANGED <<collection, doc_i, all_chunks, ranked_results,
                   result_i, final_results, seen_texts, doc_counts, output_data>>
    /\ RunOnly

\* SemanticSearcher.__init__ re-raises what loading the model raises
R_LoadFails ==
    /\ rpc = "searcher"
    /\ ~collection.loads
    /\ rpc' = "crashed"
    /\ UNCHANGED <<collection, doc_i, all_chunks, model_path, ranked_results,
                   result_i, final_results, seen_texts, doc_counts, output_data>>
    /\ RunOnly

R_Rank ==
    /\ rpc = "searcher"
    /\ collection.loads
    /\ ranked_results' =
           rank_chunks(all_chunks,
                       [i \in 1..Len(all_chunks) |->
                           CosineScore(collection.sim, all_chunks[i].text)],
                       collection.persona)
    /\ result_i' = 1
    /\ rpc' = "filtering"
    /\ UNCHANGED <<collection, doc_i, all_chunks, model_path,
                   final_results, seen_texts, doc_counts, output_data>>
    /\ RunOnly

\* one iteration of the filter loop
R_FilterStep ==
    /\ rpc = "filtering"
    /\ result_i <= Len(ranked_results)
    /\ LET result   == ranked_results[result_i]
           doc_name == result.document
           counts   == IF doc_name \in DOMAIN doc_counts THEN doc_counts
                       ELSE doc_counts @@ (doc_name :> 0)
       IN  IF FilterKeep(result, seen_texts, counts)
           THEN /\ final_results' = Append(final_results, result)
                /\ seen_texts' = seen_texts \cup {result.text}
                /\ doc_counts' = [counts EXCEPT ![doc_name] = @ + 1]
           ELSE /\ doc_counts' = counts
                /\ UNCHANGED <<final_results, seen_texts>>
    /\ result_i' = result_i + 1
    /\ UNCHANGED <<rpc, collection, doc_i, all_chunks, model_path,
                   ranked_results, output_data>>
    /\ RunOnly

\* after the loop: the cut to top_n_results, the ranks, the output file
R_WriteOutput ==
    /\ rpc = "filtering"
    /\ result_i > Len(ranked_results)
    /\ final_results' = Rerank(TopN(final_results))
    /\ output_data' = OutputData(collection, Rerank(TopN(final_results)),
                                 Len(all_chunks))
    /\ rpc' = "written"
    /\ UNCHANGED <<collection, doc_i, all_chunks, model_path, ranked_results,
                   result_i, seen_texts, doc_counts>>
    /\ RunOnly

RunNext ==
    \/ R_NoInput
    \/ R_LoadInput
    \/ R_ParseDoc
    \/ R_SkipMissing
    \/ R_NoChunks
    \/ R_ModelMissing
    \/ R_ModelFound
    \/ R_LoadFails
    \/ R_Rank
    \/ R_FilterStep
    \/ R_WriteOutput

(***************************************************************************)
(* Challenge_1a/process_pdfs.py: EnhancedOutlineExtractor                  *)
(*                                                                         *)
(* A document is [opens, toc_raises, toc, pages]: whether fitz.open        *)
(* succeeds, whether get_toc raises, the bookmarks [level, title, page],   *)
(* and the pages.  A page is a sequence of blocks [has_lines, lines]; a    *)
(* line is [spans, x, y] with x = bbox[0], y = bbox[1]; a span is [text,   *)
(* size, flags], size in tenths of a point.  The font size of a text       *)
(* element and the font statistics are in twentieths of a point, so that   *)
(* the mean of one or two span sizes is an integer.                        *)
(***************************************************************************)

\* Op applied to a value computed once (a local assignment)
With(value, Op(_)) == CHOOSE r \in {Op(v) : v \in {value}} : TRUE

\* str.upper() on one character
UpperChar(c) ==
    IF c \in LowerChars
    THEN Char(UpperAlpha, CHOOSE i \in 1..26 : Char(LowerAlpha, i) = c)
    ELSE c

\* the characters a class matches under re.IGNORECASE
IgnoreCase(S) == S \cup {LowerChar(c) : c \in S} \cup {UpperChar(c) : c \in S}

\* One item of a regular expression: a character class (any = TRUE for '.')
\* repeated min..max times, max = 0 for no upper limit.
Item(cls, min, max) == [cls |-> IgnoreCase(cls), any |-> FALSE, min |-> min, max |-> max]
AnyItem(min, max) == [cls |-> {}, any |-> TRUE, min |-> min, max |-> max]
Literal(word) == [i \in 1..Len(word) |-> Item({Char(word, i)}, 1, 1)]

RomanChars == {"I", "V", "X"}

\* self.heading_patterns: each a sequence of items after '^', with
\* end = TRUE when the expression closes with '$'
heading_patterns ==
    << [items |-> <<Item(DigitChars, 1, 0), Item({"."}, 1, 1),
                    Item(Whitespace, 1, 0), AnyItem(1, 0)>>, end |-> FALSE],
       [items |-> <<Item(DigitChars, 1, 0), Item({"."}, 1, 1),
                    Item(DigitChars, 1, 0),
                    Item(Whitespace, 1, 0), AnyItem(1, 0)>>, end |-> FALSE],
       [items |-> <<Item(DigitChars, 1, 0), Item({"."}, 1, 1),
                    Item(DigitChars, 1, 0), Item({"."}, 1, 1),
                    Item(DigitChars, 1, 0),
                    Item(Whitespace, 1, 0), AnyItem(1, 0)>>, end |-> FALSE],
       [items |-> <<Item(RomanChars, 1, 0), Item({"."}, 1, 1),
                    Item(Whitespace, 1, 0), AnyItem(1, 0)>>, end |-> FALSE],
       [items |-> <<Item(UpperChars, 1, 1), Item({"."}, 1, 1),
                    Item(Whitespace, 1, 0), AnyItem(1, 0)>>, end |-> FALSE],
       [items |-> Literal("Chapter")
                    \o <<Item(Whitespace, 1, 0), Item(DigitChars, 1, 0)>>,
        end |-> FALSE],
       [items |-> Literal("Section")
                    \o <<Item(Whitespace, 1, 0), Item(DigitChars, 1, 0)>>,
        end |-> FALSE],
       [items |-> Literal("Part")
                    \o <<Item(Whitespace, 1, 0),
                         Item(RomanChars \cup DigitChars, 1, 0)>>,
        end |-> FALSE],
       [items |-> <<Item(DigitChars, 1, 0), Item(Whitespace, 1, 0),
                    Item(UpperChars, 1, 1), Item(LowerChars, 1, 1)>>,
        end |-> FALSE],
       [items |-> <<Item(UpperChars, 1, 1),
                    Item(UpperChars \cup Whitespace, 10, 0)>>, end |-> TRUE] >>

heading_keywords ==
    {"introduction", "conclusion", "abstract", "summary", "overview",
     "background", "methodology", "results", "discussion", "references",
     "appendix", "chapter", "section", "part", "table of contents",
     "executive summary", "acknowledgments", "bibliography"}

\* whether character c is matched by the item
InClass(c, item) ==
    IF item.any THEN c # "\n" ELSE c \in item.cls

\* whether items[k..] match text from position pos on, by backtracking over
\* the number of repetitions of each item
RECURSIVE MatchFrom(_, _, _, _, _)
MatchFrom(items, k, text, pos, end) ==
    IF k > Len(items)
    THEN \/ ~end
         \/ pos = Len(text) + 1
         \/ pos = Len(text) /\ Char(text, pos) = "\n"
    ELSE LET most == IF items[k].max = 0 THEN Len(text) - pos + 1
                     ELSE items[k].max
         IN  \E c \in items[k].min..most :
                /\ pos + c - 1 <= Len(text)
                /\ \A j \in pos..(pos + c - 1) : InClass(Char(text, j), items[k])
                /\ MatchFrom(items, k + 1, text, pos + c, end)

\* re.match(pattern, text, re.IGNORECASE) is not None
re_match(pattern, text) == MatchFrom(pattern.items, 1, text, 1, pattern.end)

\* sum of a sequence of integers
RECURSIVE SumFrom(_, _)
SumFrom(values, i) ==
    IF i > Len(values) THEN 0 ELSE values[i] + SumFrom(values, i + 1)

Sum(values) == SumFrom(values, 1)

\* statistics.mean of span sizes given in tenths, in twentieths of a point
Mean(sizes) == (2 * Sum(sizes)) \div Len(sizes)

\* the text element of one line, as a sequence of zero or one element
LineElement(line) ==
    IF line.spans = <<>> THEN <<>>
    ELSE
      LET text == Strip(Join(" ", [i \in 1..Len(line.spans) |-> line.spans[i].text]))
      IN  IF Len(text) < 3 THEN <<>>
          ELSE << [text |-> text,
                   font_size |-> Mean([i \in 1..Len(line.spans) |-> line.spans[i].size]),
                   is_bold |-> \E i \in 1..Len(line.spans) :
                                   (line.spans[i].flags \div 16) % 2 = 1,
                   y_position |-> line.y,
                   x_position |-> line.x] >>

\* extract_text_features: the elements of the lines of one page, in order
extract_text_features(page) ==
    Flatten([b \in 1..Len(page) |->
        IF ~page[b].has_lines THEN <<>>
        ELSE Flatten([l \in 1..Len(page[b].lines) |->
                         LineElement(page[b].lines[l])])])

\* calculate_font_statistics.  The standard deviation is kept by its square
\* var_num / var_den (in twentieths squared); it is 2 points for one element.
calculate_font_statistics(text_elements) ==
    LET n          == Len(text_elements)
        font_sizes == SubSeq([i \in 1..n |-> text_elements[i].font_size], 1, n)
        squares    == SubSeq([i \in 1..n |-> font_sizes[i] * font_sizes[i]], 1, n)
    IN  IF n = 0
        THEN [body_size |-> 240, var_num |-> 1600, var_den |-> 1, defaults |-> TRUE]
        ELSE [body_size |-> MostCommon(font_sizes),
              var_num |-> IF n > 1 THEN n * Sum(squares) - Sum(font_sizes) * Sum(font_sizes)
                          ELSE 1600,
              var_den |-> IF n > 1 THEN n * (n - 1) ELSE 1,
              defaults |-> FALSE]

\* the comparison with the thresholds shifted by one standard deviation
MutExceeds(font_size, stats, k) ==
    /\ font_size > stats.body_size
    /\ (font_size - stats.body_size) * (font_size - stats.body_size) * stats.var_den
           > (k + 1) * (k + 1) * stats.var_num

\* font_size > body_size + k * std_size, for k = 0, 1, 2
Exceeds(font_size, stats, k) ==
    /\ font_size > stats.body_size
    /\ (font_size - stats.body_size) * (font_size - stats.body_size) * stats.var_den
           > k * k * stats.var_num

\* the font size analysis with the two upper increments exchanged
MutFontSizeIncrement(elem, stats) ==
    IF Exceeds(elem.font_size, stats, 2) THEN 25
    ELSE IF Exceeds(elem.font_size, stats, 1) THEN 40
    ELSE IF Exceeds(elem.font_size, stats, 0) THEN 10
    ELSE 0

\* the font size analysis of is_likely_heading: 0.4 above the large heading
\* threshold, 0.25 above the heading threshold, 0.1 above the body size
FontSizeIncrement(elem, stats) ==
    IF Exceeds(elem.font_size, stats, 2) THEN 40
    ELSE IF Exceeds(elem.font_size, stats, 1) THEN 25
    ELSE IF Exceeds(elem.font_size, stats, 0) THEN 10
    ELSE 0

\* The confidence increments of is_likely_heading in the order they are
\* added, in hundredths, 0 where the test fails: font size, bold, pattern,
\* keyword, left margin, short line, all caps, long line, artefact word.
IncrementsOf(text, elem, stats, text_lower, words) ==
        << FontSizeIncrement(elem, stats),
           IF elem.is_bold THEN 30 ELSE 0,
           IF \E p \in 1..Len(heading_patterns) : re_match(heading_patterns[p], text)
           THEN 35 ELSE 0,
           IF \E keyword \in heading_keywords : Contains(keyword, text_lower)
           THEN 20 ELSE 0,
           IF elem.x_position < 100 THEN 10 ELSE 0,
           IF words <= 8 THEN 10 ELSE 0,
           IF IsUpper(text) /\ words <= 6 THEN 20 ELSE 0,
           IF words > 15 THEN -20 ELSE 0,
           IF \E pattern \in {"page", "figure", "table", "source:", "note:"} :
                  Contains(pattern, text_lower)
           THEN -30 ELSE 0 >>

Increments(text, elem, stats) ==
    With(Strip(Lower(text)), LAMBDA text_lower :
        With(WordCount(text), LAMBDA words :
            IncrementsOf(text, elem, stats, text_lower, words)))

\* The sequences of increments whose sum is 0.40 in decimal arithmetic but
\* 0.4000000000000001 or 0.4000000000000002 when added as doubles in this
\* order, and so exceeds 0.4.
RoundsAboveThreshold ==
    { <<40, 0, 0, 20, 10, 0, 20, -20, -30>>, <<40, 0, 0, 20, 10, 0, 0, 0, -30>>,
      <<40, 0, 0, 20, 0, 10, 20, -20, -30>>, <<40, 0, 0, 20, 0, 10, 0, 0, -30>>,
      <<40, 0, 0, 20, 0, 0, 0, -20, 0>>, <<40, 0, 0, 0, 0, 0, 20, -20, 0>>,
      <<10, 30, 0, 20, 10, 0, 20, -20, -30>>, <<10, 30, 0, 20, 10, 0, 0, 0, -30>>,
      <<10, 30, 0, 20, 0, 10, 20, -20, -30>>, <<10, 30, 0, 20, 0, 10, 0, 0, -30>>,
      <<10, 30, 0, 20, 0, 0, 0, -20, 0>>, <<10, 30, 0, 0, 0, 0, 20, -20, 0>>,
      <<10, 0, 0, 20, 10, 0, 20, -20, 0>>, <<10, 0, 0, 20, 0, 10, 20, -20, 0>>,
      <<0, 30, 0, 0, 10, 0, 20, -20, 0>>, <<0, 30, 0, 0, 0, 10, 20, -20, 0>>,
      <<0, 0, 0, 20, 10, 10, 20, -20, 0>> }

\* is_likely_heading of process_pdfs.py: (confidence > 0.4, confidence)
is_likely_heading(text, elem, stats) ==
    With(Increments(text, elem, stats), LAMBDA incs :
        [is_heading |-> Sum(incs) > 40 \/ incs \in RoundsAboveThreshold,
         confidence |-> Sum(incs)])

determine_heading_level(elem, stats, conf) ==
    IF Exceeds(elem.font_size, stats, 2) THEN "H1"
    ELSE IF Exceeds(elem.font_size, stats, 1) THEN "H2"
    ELSE "H3"

\* the first n items of a sequence
Take(items, n) == SubSeq(items, 1, IF Len(items) < n THEN Len(items) ELSE n)

\* the items at the indices of keep, in order
Select(items, keep) ==
    LET n     == Len(items)
        place == SubSeq([i \in 1..n |-> Cardinality({j \in keep : j <= i})], 1, n)
        Nth(k) == CHOOSE i \in keep : place[i] = k
    IN  SubSeq([k \in 1..Cardinality(keep) |-> items[Nth(k)]], 1, Cardinality(keep))

\* the sort left out
MutSortByPosition(items) == items

\* sorted by (page, y_position); list.sort is stable
SortByPosition(items) ==
    LET n == Len(items)
        Before(i, j) == \/ items[i].page < items[j].page
                        \/ /\ items[i].page = items[j].page
                           /\ items[i].y_position < items[j].y_position
        Same(i, j) == /\ items[i].page = items[j].page
                      /\ items[i].y_position = items[j].y_position
        Pos(i) == Cardinality({j \in 1..n : Before(j, i)})
                  + Cardinality({j \in 1..(i - 1) : Same(j, i)}) + 1
        pos == SubSeq([i \in 1..n |-> Pos(i)], 1, n)
    IN  SubSeq([k \in 1..n |-> items[CHOOSE i \in 1..n : pos[i] = k]], 1, n)

\* the first pass keyed by (level, lowercased text, page)
MutFirstOccurrencesByTriple(outline) ==
    LET n   == Len(outline)
        key == SubSeq([i \in 1..n |-> Strip(Lower(outline[i].text))], 1, n)
    IN  {i \in 1..n : /\ Len(key[i]) > 2
                      /\ \A j \in 1..(i - 1) :
                             \/ key[j] # key[i]
                             \/ outline[j].level # outline[i].level
                             \/ outline[j].page # outline[i].page}

\* the first pass of post_process_outline with the test on seen dropped
MutFirstOccurrences(outline) ==
    {i \in 1..Len(outline) : Len(Strip(Lower(outline[i].text))) > 2}

\* the first pass of post_process_outline: the indices of the items kept,
\* those whose key text.lower().strip() is longer than 2 and was not seen
FirstOccurrences(outline) ==
    LET n   == Len(outline)
        key == SubSeq([i \in 1..n |-> Strip(Lower(outline[i].text))], 1, n)
    IN  {i \in 1..n : /\ Len(key[i]) > 2
                      /\ \A j \in 1..(i - 1) : key[j] # key[i]}

\* the slice at the end of post_process_outline taken from the second item
MutCap(items) == SubSeq(items, 2, IF Len(items) < 50 THEN Len(items) ELSE 50)

\* filtered_outline[:50]
Cap(items) == Take(items, 50)

post_process_outline(outline) ==
    With(Select(outline, FirstOccurrences(outline)), LAMBDA filtered_outline :
        Cap(SortByPosition(filtered_outline)))

\* extract_existing_outline: the bookmarks with their levels as H1, H2, H3;
\* nothing when there are none or when get_toc raises
extract_existing_outline(doc) ==
    IF doc.toc_raises THEN <<>>
    ELSE [i \in 1..Len(doc.toc) |->
            [level |-> IF doc.toc[i].level <= 1 THEN "H1"
                       ELSE IF doc.toc[i].level <= 2 THEN "H2" ELSE "H3",
             text |-> Strip(doc.toc[i].title),
             page |-> doc.toc[i].page]]

\* os.path.join(input_dir, filename)
PathJoin(dir, filename) == dir \o "/" \o filename

\* os.path.basename
Basename(path) ==
    LET slashes == {i \in 1..Len(path) : Char(path, i) = "/"}
    IN  IF slashes = {} THEN path
        ELSE SubSeq(path, (CHOOSE i \in slashes : \A j \in slashes : i >= j) + 1,
                    Len(path))

\* the file name kept whole
MutSplitext(name) == name

\* os.path.splitext(name)[0]: the name up to its last dot, unless only dots
\* precede that dot
Splitext(name) ==
    LET dots == {i \in 1..Len(name) : Char(name, i) = "."}
        last == CHOOSE i \in dots : \A j \in dots : i >= j
    IN  IF dots = {} \/ \A j \in 1..(last - 1) : Char(name, j) = "."
        THEN name
        ELSE SubSeq(name, 1, last - 1)

\* the text elements of the first 20 pages, each with its page number
AllTextElements(doc) ==
    LET n == IF Len(doc.pages) < 20 THEN Len(doc.pages) ELSE 20
        OfPage(p) ==
            LET elems == extract_text_features(doc.pages[p])
            IN  [i \in 1..Len(elems) |->
                    [text |-> elems[i].text, font_size |-> elems[i].font_size,
                     is_bold |-> elems[i].is_bold, y_position |-> elems[i].y_position,
                     x_position |-> elems[i].x_position, page |-> p]]
        all == Flatten([p \in 1..n |-> OfPage(p)])
    IN  SubSeq(all, 1, Len(all))

\* the headings the classifier accepts, in element order
HeadingsOf(elems, stats, verdict) ==
    LET n     == Len(elems)
        items == [i \in 1..n |->
                     [level |-> determine_heading_level(elems[i], stats,
                                                        verdict[i].confidence),
                      text |-> elems[i].text,
                      page |-> elems[i].page,
                      confidence |-> verdict[i].confidence,
                      y_position |-> elems[i].y_position]]
    IN  Select(items, {i \in 1..n : verdict[i].is_heading})

ExtractHeadings(elems, stats) ==
    With(SubSeq([i \in 1..Len(elems) |->
                    is_likely_heading(elems[i].text, elems[i], stats)], 1, Len(elems)),
         LAMBDA verdict : HeadingsOf(elems, stats, verdict))

\* the entries as written: confidence and y_position popped
Entries(items) ==
    [i \in 1..Len(items) |->
        [level |-> items[i].level, text |-> items[i].text, page |-> items[i].page]]

\* process_pdf: [raised, title, outline], with the path taken and the raw
\* list of accepted headings (before post-processing) as a record of the run
\* process_pdf from the extraction of the text on: font statistics,
\* classification, post-processing
InferOutline(title, all_text_elements) ==
    IF all_text_elements = <<>>
    THEN [raised |-> FALSE, title |-> title, outline |-> <<>>,
          path |-> "empty", raw |-> <<>>]
    ELSE With(calculate_font_statistics(all_text_elements), LAMBDA stats :
           With(ExtractHeadings(all_text_elements, stats), LAMBDA outline :
             [raised |-> FALSE, title |-> title,
              outline |-> Entries(post_process_outline(outline)),
              path |-> "layout", raw |-> outline]))

process_pdf(doc, file_path) ==
    LET title == Splitext(Basename(file_path))
        existing_outline == extract_existing_outline(doc)
    IN  IF ~doc.opens
        THEN [raised |-> TRUE, title |-> "", outline |-> <<>>,
              path |-> "failed", raw |-> <<>>]
        ELSE IF existing_outline # <<>>
        THEN [raised |-> FALSE, title |-> title, outline |-> existing_outline,
              path |-> "toc", raw |-> <<>>]
        ELSE With(AllTextElements(doc), LAMBDA all_text_elements :
                 InferOutline(title, all_text_elements))

(***************************************************************************)
(* Documents and directories main of process_pdfs.py is run on             *)
(***************************************************************************)
MaxFiles == 2

OLine(spans, x, y) == [spans |-> spans, x |-> x, y |-> y]
OBlock(lines) == [has_lines |-> TRUE, lines |-> lines]
OImage == [has_lines |-> FALSE, lines |-> <<>>]
Bookmark(lvl, title, page) == [level |-> lvl, title |-> title, page |-> page]
ODoc(toc, pages) == [opens |-> TRUE, toc_raises |-> FALSE, toc |-> toc, pages |-> pages]

TitleLine == OLine(<<Span("ANNUAL REPORT", 180, 16)>>, 72, 80)
TitleAgain == OLine(<<Span("Annual Report", 180, 16)>>, 72, 60)
NumberedLine == OLine(<<Span("1. Introduction", 140, 16)>>, 72, 150)
BodyLineA == OLine(<<Span("The committee reviewed every proposal in detail.", 100, 0)>>, 72, 200)
BodyLineB == OLine(<<Span("Costs rose by a third ", 100, 0), Span("over the year.", 100, 2)>>, 72, 220)
BodyLineC == OLine(<<Span("No further remarks were made.", 100, 0)>>, 72, 240)
ShortLine == OLine(<<Span("ab", 100, 0)>>, 72, 300)
NoSpansLine == OLine(<<>>, 72, 320)
KeywordLine == OLine(<<Span("Summary", 110, 16)>>, 72, 90)
TitleRepeat == OLine(<<Span("Annual Report", 180, 16)>>, 72, 700)

TextPage == <<OBlock(<<TitleLine>>), OBlock(<<NumberedLine, BodyLineA, BodyLineB, BodyLineC>>)>>
SecondPage ==
    <<OBlock(<<TitleAgain, BodyLineA, ShortLine>>), OImage, OBlock(<<TitleRepeat>>)>>
BlankPage == <<OImage, OBlock(<<ShortLine, NoSpansLine>>)>>

\* a page of ManyLines numbered bold headings in one block, listed from the
\* bottom of the page to its top
ManyLines == 26
ItemName(k) ==
    Char(UpperAlpha, ((k - 1) \div 26) + 1) \o Char(UpperAlpha, ((k - 1) % 26) + 1)
ManyPage(p) ==
    <<OBlock([k \in 1..ManyLines |->
                 OLine(<<Span(Char("12", p) \o ". Item " \o ItemName(k), 120, 16)>>,
                       72, 40 + 20 * (ManyLines - k))])>>
\* 2 * ManyLines bookmarks whose pages go 3, 1, 2, 3, 1, 2, ...
ManyBookmarks ==
    [k \in 1..(2 * ManyLines) |->
        Bookmark(1 + (k % 3), "Entry " \o ItemName(k), ((k + 1) % 3) + 1)]

FileCatalogue ==
    { [filename |-> "report.pdf", doc |-> ODoc(<<>>, <<TextPage, SecondPage>>)],
      [filename |-> "many.pdf", doc |-> ODoc(<<>>, <<ManyPage(1), ManyPage(2)>>)],
      [filename |-> "index.pdf", doc |-> ODoc(ManyBookmarks, <<TextPage>>)],
      [filename |-> "scan.pdf", doc |-> ODoc(<<>>, <<BlankPage, <<>> >>)],
      [filename |-> "marked.pdf",
       doc |-> ODoc(<<Bookmark(1, "Overview", 1), Bookmark(1, " Overview", 1),
                      Bookmark(2, "Scope", 1), Bookmark(3, "Details", 2),
                      Bookmark(4, "Details", 2)>>, <<TextPage, SecondPage>>)],
      [filename |-> "markedscan.pdf",
       doc |-> ODoc(<<Bookmark(1, "Cover", 1)>>, <<BlankPage>>)],
      [filename |-> "broken.pdf",
       doc |-> [opens |-> TRUE, toc_raises |-> TRUE, toc |-> <<>>,
                pages |-> <<TextPage>>]],
      [filename |-> "corrupt.pdf",
       doc |-> [opens |-> FALSE, toc_raises |-> FALSE, toc |-> <<>>, pages |-> <<>>]],
      [filename |-> "flat.v2.pdf", doc |-> ODoc(<<>>, <<<<OBlock(<<KeywordLine>>)>>>>)],
      [filename |-> "notes.txt",
       doc |-> [opens |-> FALSE, toc_raises |-> FALSE, toc |-> <<>>, pages |-> <<>>]] }

\* the listings of up to MaxFiles different files
Listings ==
    UNION {{fs \in [1..k -> FileCatalogue] :
                \A i, j \in 1..k : fs[i] = fs[j] => i = j} : k \in 0..MaxFiles}

InputDirs ==
    {[exists |-> TRUE, all_files |-> fs] : fs \in Listings}
    \cup {[exists |-> FALSE, all_files |-> <<>>]}

(***************************************************************************)
(* main of process_pdfs.py, one file of the loop per step                  *)
(***************************************************************************)
OutlineIdle ==
    /\ opc = "idle"
    /\ input_dir = [exists |-> FALSE, all_files |-> <<>>]
    /\ pdf_files = <<>>
    /\ file_i = 0
    /\ outputs = <<>>
    /\ found = <<>>

OutlineInit ==
    /\ opc = "start"
    /\ input_dir \in InputDirs
    /\ pdf_files = <<>>
    /\ file_i = 0
    /\ outputs = <<>>
    /\ found = <<>>

OutlineOnly == UNCHANGED <<parser_vars, score_vars, run_vars, classify_vars>>

\* pdf_files = [f for f in all_files if f.endswith(".pdf")]
PdfFiles(all_files) ==
    Select(all_files, {i \in 1..Len(all_files) : EndsWith(all_files[i].filename, ".pdf")})

\* the input directory does not exist: main returns
O_NoInputDir ==
    /\ opc = "start"
    /\ ~input_dir.exists
    /\ opc' = "returned"
    /\ UNCHANGED <<input_dir, pdf_files, file_i, outputs, found>>
    /\ OutlineOnly

\* no PDF file in the directory: main returns
O_NoPdfs ==
    /\ opc = "start"
    /\ input_dir.exists
    /\ PdfFiles(input_dir.all_files) = <<>>
    /\ opc' = "returned"
    /\ UNCHANGED <<input_dir, pdf_files, file_i, outputs, found>>
    /\ OutlineOnly

O_ListFiles ==
    /\ opc = "start"
    /\ input_dir.exists
    /\ PdfFiles(input_dir.all_files) # <<>>
    /\ pdf_files' = PdfFiles(input_dir.all_files)
    /\ file_i' = 1
    /\ opc' = "loop"
    /\ UNCHANGED <<input_dir, outputs, found>>
    /\ OutlineOnly

\* one file of the loop: the try branch writes the result of process_pdf
O_Process ==
    /\ opc = "loop"
    /\ file_i <= Len(pdf_files)
    /\ \E result \in {process_pdf(pdf_files[file_i].doc,
                                   PathJoin("input", pdf_files[file_i].filename))} :
           LET filename == pdf_files[file_i].filename
           IN
           /\ ~result.raised
           /\ outputs' = Append(outputs, [file |-> Splitext(filename) \o ".json",
                                          title |-> result.title,
                                          outline |-> result.outline])
           /\ found' = Append(found, [path |-> result.path, raw |-> result.raw])
    /\ file_i' = file_i + 1
    /\ UNCHANGED <<opc, input_dir, pdf_files>>
    /\ OutlineOnly

\* one file of the loop: process_pdf raises and the except branch writes an
\* empty outline
O_ProcessFails ==
    /\ opc = "loop"
    /\ file_i <= Len(pdf_files)
    /\ \E result \in {process_pdf(pdf_files[file_i].doc,
                                   PathJoin("input", pdf_files[file_i].filename))} :
           LET filename == pdf_files[file_i].filename
           IN
           /\ result.raised
           /\ outputs' = Append(outputs, [file |-> Splitext(filename) \o ".json",
                                          title |-> Splitext(filename),
                                          outline |-> <<>>])
           /\ found' = Append(found, [path |-> "failed", raw |-> <<>>])
    /\ file_i' = file_i + 1
    /\ UNCHANGED <<opc, input_dir, pdf_files>>
    /\ OutlineOnly

O_Done ==
    /\ opc = "loop"
    /\ file_i > Len(pdf_files)
    /\ opc' = "done"
    /\ UNCHANGED <<input_dir, pdf_files, file_i, outputs, found>>
    /\ OutlineOnly

OutlineNext ==
    \/ O_NoInputDir
    \/ O_NoPdfs
    \/ O_ListFiles
    \/ O_Process
    \/ O_ProcessFails
    \/ O_Done

(***************************************************************************)
(* is_likely_heading and determine_heading_level on drawn arguments        *)
(***************************************************************************)
ClassifyTexts ==
    {"A B C", "ANNUAL REPORT SUMMARY", "SEE TABLE TWO", "KEY RESULTS FOUND",
     "NOTE: READ THIS", "TOTAL COST ROSE.", "Annual report summary",
     "1. Introduction", "Chapter 2", "Costs rose.",
     "one two three four five six seven eight nine ten eleven twelve thirteen fourteen fifteen sixteen"}
ClassifySizes == {200, 240, 300, 360}
ClassifyBodies == {200, 240}
ClassifyDeviations == {0, 20, 50, 60, 80, 100, 120, 150}

ClassifyIdle ==
    /\ cpc = "idle"
    /\ element = [text |-> "", font_size |-> 0, is_bold |-> FALSE, x_position |-> 0]
    /\ font_stats = [body_size |-> 0, var_num |-> 0, var_den |-> 1, defaults |-> FALSE]
    /\ is_heading = FALSE
    /\ confidence = 0
    /\ level = ""
    /\ previous = <<>>

ClassifyInit ==
    /\ cpc = "call"
    /\ element \in [text : ClassifyTexts, font_size : ClassifySizes,
                    is_bold : BOOLEAN, x_position : {72, 100}]
    /\ font_stats \in {[body_size |-> b, var_num |-> d * d, var_den |-> 1,
                        defaults |-> FALSE] :
                           b \in ClassifyBodies, d \in ClassifyDeviations}
    /\ is_heading = FALSE
    /\ confidence = 0
    /\ level = ""
    /\ previous = <<>>

ClassifyOnly == UNCHANGED <<parser_vars, score_vars, run_vars, outline_vars>>

\* is_heading, confidence = self.is_likely_heading(element['text'], element, font_stats)
K_Classify ==
    /\ cpc = "call"
    /\ LET verdict == is_likely_heading(element.text, element, font_stats)
       IN  /\ is_heading' = verdict.is_heading
           /\ confidence' = verdict.confidence
    /\ cpc' = "classified"
    /\ UNCHANGED <<element, font_stats, level, previous>>
    /\ ClassifyOnly

\* if is_heading: level = self.determine_heading_level(...)
K_Level ==
    /\ cpc = "classified"
    /\ is_heading
    /\ level' = determine_heading_level(element, font_stats, confidence)
    /\ cpc' = "done"
    /\ UNCHANGED <<element, font_stats, is_heading, confidence, previous>>
    /\ ClassifyOnly

\* not a heading: the element is dropped
K_Drop ==
    /\ cpc = "classified"
    /\ ~is_heading
    /\ cpc' = "done"
    /\ UNCHANGED <<element, font_stats, is_heading, confidence, level, previous>>
    /\ ClassifyOnly

\* for element in all_text_elements: the loop of process_pdf goes on to its
\* next element, here one that differs from the last in font size only,
\* under the same font statistics; is_heading, confidence and level are the
\* values of the iteration
K_NextElement ==
    /\ cpc = "done"
    /\ \E size \in ClassifySizes :
           element' = [element EXCEPT !.font_size = size]
    /\ previous' = <<[element |-> element, confidence |-> confidence]>>
    /\ cpc' = "call"
    /\ is_heading' = FALSE
    /\ confidence' = 0
    /\ level' = ""
    /\ UNCHANGED font_stats
    /\ ClassifyOnly

ClassifyNext == K_Classify \/ K_Level \/ K_Drop \/ K_NextElement

(***************************************************************************)
(* Specifications: each runs one entry point, the others staying idle      *)
(***************************************************************************)
InitParser == ParserInit /\ ScoreIdle /\ RunIdle /\ OutlineIdle /\ ClassifyIdle
SpecParser == InitParser /\ [][ParserNext]_vars

InitScore == ScoreInit /\ ParserIdle /\ RunIdle /\ OutlineIdle /\ ClassifyIdle
SpecScore == InitScore /\ [][S_Score]_vars

InitRun == RunInit /\ ParserIdle /\ ScoreIdle /\ OutlineIdle /\ ClassifyIdle
SpecRun == InitRun /\ [][RunNext]_vars

InitOutline == OutlineInit /\ ParserIdle /\ ScoreIdle /\ RunIdle /\ ClassifyIdle
SpecOutline == InitOutline /\ [][OutlineNext]_vars

InitClassify == ClassifyInit /\ ParserIdle /\ ScoreIdle /\ RunIdle /\ OutlineIdle
SpecClassify == InitClassify /\ [][ClassifyNext]_vars

(***************************************************************************)
(* Claims                                                                  *)
(***************************************************************************)
SrcBlock(s) == pdf.pages[s.page].blocks[s.block]
SrcHeight(s) == pdf.pages[s.page].height

\* C3: the page number recorded on every emitted chunk is the page on which
\* the first block of its paragraph buffer was appended.
C3_PageIsWhereParagraphBegan ==
    \A k \in 1..Len(chunks) :
        chunks[k].page_number = chunk_src[k].texts[1].page

\* C4: every emitted chunk has cleaned text of length at least 40, its text
\* is the cleaned join of blocks that are text blocks outside the 50-unit
\* header and footer bands and not digit-only, and every section title (of a
\* chunk, and the current one) is the default or the text of such a block.
C4_KeptBlock(s) ==
    /\ SrcBlock(s).type = 0
    /\ SrcBlock(s).top >= 50
    /\ SrcBlock(s).bottom <= SrcHeight(s) - 50
    /\ ~IsDigit(BlockText(SrcBlock(s)))

C4_TitleFrom(title, src) ==
    IF src = <<>> THEN title = "Introduction"
    ELSE /\ C4_KeptBlock(src[1])
         /\ title = clean_text(BlockText(SrcBlock(src[1])))

C4_ChunksLongAndFromKeptBlocks ==
    /\ Len(chunk_src) = Len(chunks)
    /\ \A k \in 1..Len(chunks) :
        LET src == chunk_src[k].texts
        IN  /\ Len(chunks[k].text) >= 40
            /\ src # <<>>
            /\ \A i \in 1..Len(src) : C4_KeptBlock(src[i])
            /\ chunks[k].text =
                   clean_text(Join(" ", [i \in 1..Len(src) |-> BlockText(SrcBlock(src[i]))]))
            /\ C4_TitleFrom(chunks[k].section_title, chunk_src[k].title)
    /\ ppc \notin {"idle", "open"} =>
           C4_TitleFrom(current_section_title, title_src)

\* C4 witness: the parse is over and a chunk was built from a block of a page
\* that also holds a block in the header or footer band.
C4_Witness ==
    /\ ppc = "done"
    /\ \E k \in 1..Len(chunks) :
        \E i \in 1..Len(chunk_src[k].texts) :
            LET pg == pdf.pages[chunk_src[k].texts[i].page]
            IN  \E j \in 1..Len(pg.blocks) :
                    /\ pg.blocks[j].type = 0
                    /\ pg.blocks[j].top < 50
                    /\ Len(BlockText(pg.blocks[j])) >= 40

\* the number of results that come from document d
HitsOf(results, d) ==
    Cardinality({i \in 1..Len(results) : results[i].document = d})

\* C1: when run_analysis has written its output, the final result list has
\* at most min(20, number of chunks fed to the ranking) entries and no
\* document contributes more than 3 of them.
C1_AtMostTwentyAndThreePerDocument ==
    rpc = "written" =>
        /\ Len(final_results) <= 20
        /\ Len(final_results) <= Len(all_chunks)
        /\ \A i \in 1..Len(final_results) :
               HitsOf(final_results, final_results[i].document) <= 3

\* C1 witness: more than 20 chunks were ranked, a document had a fourth chunk
\* refused, and the filtered list was cut to exactly 20.
C1_Witness ==
    /\ rpc = "written"
    /\ Len(all_chunks) > 20
    /\ Len(final_results) = 20
    /\ \E i \in 1..Len(final_results) :
           /\ HitsOf(final_results, final_results[i].document) = 3
           /\ HitsOf(ranked_results, final_results[i].document) > 3

\* C2 as stated: for persona "Researcher", title "Conclusion" and base
\* similarity 0.40, get_final_score returns 0.40.
C2_ConclusionScoreUnchanged ==
    (spc = "returned" /\ persona = "Researcher" /\ section_title = "Conclusion"
        /\ base_score = 40000) => final_score = 40000

\* C2 amended: for persona "Researcher", title "Conclusion" and base
\* similarity 0.40, no penalty is applied and the Researcher boost of 1.3
\* for the keyword "conclusion" is: get_final_score returns 0.52.
C2_ConclusionNotPenalisedButBoosted ==
    (spc = "returned" /\ persona = "Researcher" /\ section_title = "Conclusion"
        /\ base_score = 40000) =>
            /\ ~Penalized(Strip(Lower(section_title)), persona)
            /\ final_score = 52000

\* C2 witness: get_final_score has returned for exactly these arguments.
C2_Witness ==
    /\ spc = "returned"
    /\ persona = "Researcher"
    /\ section_title = "Conclusion"
    /\ base_score = 40000
    /\ final_score > 28000

\* C8: a failure while processing one document never aborts the processing
\* of the remaining documents: run_analysis never stops inside its document
\* loop, whatever a document of the collection does.
C8_FailureNeverAbortsTheBatch ==
    ~(rpc = "crashed" /\ doc_i <= Len(collection.documents))

\* C10: no two entries of the final result list of run_analysis have the
\* same text, while the filter runs and after the output is written.
C10_NoTwoResultsShareText ==
    \A i, j \in 1..Len(final_results) :
        final_results[i].text = final_results[j].text => i = j

\* C10 witness: the output is written and a ranked chunk of a document
\* under its cap of 3 was refused because its text had been kept from another
\* document.
C10_Witness ==
    /\ rpc = "written"
    /\ \E i \in 1..Len(ranked_results) :
        LET r == ranked_results[i]
        IN  /\ HitsOf(ranked_results, r.document) < 3
            /\ HitsOf(final_results, r.document) < HitsOf(ranked_results, r.document)
            /\ \E j \in 1..Len(final_results) :
                   /\ final_results[j].text = r.text
                   /\ final_results[j].document # r.document

\* the name of a file without its extension
StemOf(name) ==
    IF \E p \in 2..Len(name) :
           Char(name, p) = "." /\ \E q \in 1..(p - 1) : Char(name, q) # "."
    THEN SubSeq(name, 1,
                (CHOOSE p \in 2..Len(name) :
                    /\ Char(name, p) = "."
                    /\ \A q \in (p + 1)..Len(name) : Char(name, q) # ".") - 1)
    ELSE name

\* C5 as stated: in every outline written, on the native-bookmark path and
\* on the layout-inference path, no two entries share the same (level,
\* lowercased text, page) triple.
C5_NoDuplicateTriples ==
    \A k \in 1..Len(outputs) :
        \A i, j \in 1..Len(outputs[k].outline) :
            LET a == outputs[k].outline[i]
                b == outputs[k].outline[j]
            IN  (a.level = b.level /\ Lower(a.text) = Lower(b.text) /\ a.page = b.page)
                    => i = j

\* C5 amended: in every outline of the layout-inference path no two entries
\* share the same lowercased text, so none share a (level, lowercased text,
\* page) triple; on the native-bookmark path the outline has one entry per
\* bookmark, in order, with the bookmark's stripped title and page, so that
\* repeated bookmarks stay repeated.
C5_LayoutOutlineHasNoDuplicateText ==
    \A k \in 1..Len(outputs) :
        LET entries == outputs[k].outline
            toc     == pdf_files[k].doc.toc
        IN  IF found[k].path = "toc"
            THEN /\ Len(entries) = Len(toc)
                 /\ \A i \in 1..Len(toc) :
                        /\ entries[i].text = Strip(toc[i].title)
                        /\ entries[i].page = toc[i].page
            ELSE With(SubSeq([i \in 1..Len(entries) |-> Lower(entries[i].text)],
                             1, Len(entries)),
                      LAMBDA lowered :
                          \A i, j \in 1..Len(lowered) :
                              lowered[i] = lowered[j] => i = j)

\* C5 witness: main is done and, for some file of the layout path, the
\* classifier accepted two headings with the same level, page and
\* lowercased text, of which the outline holds one.
C5_Witness ==
    /\ opc = "done"
    /\ \E k \in 1..Len(outputs) :
        /\ found[k].path = "layout"
        /\ \E i, j \in 1..Len(found[k].raw) :
            /\ i < j
            /\ found[k].raw[i].level = found[k].raw[j].level
            /\ found[k].raw[i].page = found[k].raw[j].page
            /\ Lower(found[k].raw[i].text) = Lower(found[k].raw[j].text)
            /\ Cardinality({e \in 1..Len(outputs[k].outline) :
                   Lower(outputs[k].outline[e].text) = Lower(found[k].raw[i].text)}) = 1

\* whether heading i of file k is an accepted H1 on the first page on which
\* any heading was found
C6_IsTitleCandidate(k, i) ==
    /\ found[k].raw[i].level = "H1"
    /\ \A j \in 1..Len(found[k].raw) : found[k].raw[j].page >= found[k].raw[i].page

C6_HasTitleCandidate(k) ==
    /\ found[k].path = "layout"
    /\ \E i \in 1..Len(found[k].raw) : C6_IsTitleCandidate(k, i)

\* the first such heading
C6_TitleCandidate(k) ==
    found[k].raw[CHOOSE i \in 1..Len(found[k].raw) :
                    /\ C6_IsTitleCandidate(k, i)
                    /\ \A j \in 1..(i - 1) : ~C6_IsTitleCandidate(k, j)]

C7_NoText(doc) ==
    \A p \in 1..Len(doc.pages) : \A b \in 1..Len(doc.pages[p]) :
        \A l \in 1..Len(doc.pages[p][b].lines) :
            LET spans == doc.pages[p][b].lines[l].spans
            IN  Len(Strip(Join(" ", [i \in 1..Len(spans) |-> spans[i].text]))) < 3

\* C7 as stated: for every document without any text element the written
\* outline is empty and the title is the filename stem, whether or not the
\* document has a native table of contents.
C7_NoTextGivesEmptyOutline ==
    \A k \in 1..Len(outputs) :
        C7_NoText(pdf_files[k].doc) =>
            /\ outputs[k].outline = <<>>
            /\ outputs[k].title = StemOf(pdf_files[k].filename)

\* C7 amended: for every document without any text element the title is the
\* filename stem, and the outline is empty provided the document exposes no
\* native table of contents (none, or get_toc raises); when it exposes one,
\* the outline is the list of its bookmarks.
C7_NoTextAndNoBookmarksGivesEmptyOutline ==
    \A k \in 1..Len(outputs) :
        C7_NoText(pdf_files[k].doc) =>
            /\ outputs[k].title = StemOf(pdf_files[k].filename)
            /\ IF pdf_files[k].doc.toc = <<>> \/ pdf_files[k].doc.toc_raises
               THEN outputs[k].outline = <<>>
               ELSE Len(outputs[k].outline) = Len(pdf_files[k].doc.toc)

\* C7 witness: main is done and process_pdf returned for a file that opens,
\* has pages with lines and no bookmarks, and gives no text element.
C7_Witness ==
    /\ opc = "done"
    /\ \E k \in 1..Len(outputs) :
        /\ found[k].path = "empty"
        /\ C7_NoText(pdf_files[k].doc)
        /\ \E p \in 1..Len(pdf_files[k].doc.pages) :
               \E b \in 1..Len(pdf_files[k].doc.pages[p]) :
                   pdf_files[k].doc.pages[p][b].lines # <<>>

\* the classified element is an all-caps line of 3 words at 1.5 times the
\* body size without a trailing period
C9_Case ==
    /\ cpc = "done"
    /\ IsUpper(element.text)
    /\ WordCount(element.text) = 3
    /\ 2 * element.font_size = 3 * font_stats.body_size
    /\ ~EndsWith(element.text, ".")

\* C9 as stated: such a line is always accepted as a heading and gets level
\* H1 or H2, whatever the bold flag, the x position, the text and the font
\* standard deviation.
C9_CapsLineAlwaysH1OrH2 ==
    C9_Case => (is_heading /\ level \in {"H1", "H2"})

\* C9 amended: such a line is accepted as a heading and gets level H1 or H2
\* for every bold flag and x position, provided the font standard deviation
\* is below half the body size and the text contains none of "page",
\* "figure", "table", "source:", "note:".
C9_Provided ==
    /\ 4 * font_stats.var_num
           < font_stats.body_size * font_stats.body_size * font_stats.var_den
    /\ \A word \in {"page", "figure", "table", "source:", "note:"} :
           ~Contains(word, Lower(element.text))

C9_CapsLineH1OrH2UnderSmallDeviation ==
    (C9_Case /\ C9_Provided) => (is_heading /\ level \in {"H1", "H2"})

\* C9 witness: such a line, neither bold nor at the left margin, with a
\* deviation between a quarter and a half of the body size, was accepted
\* and got level H2.
C9_Witness ==
    /\ C9_Case
    /\ C9_Provided
    /\ ~element.is_bold
    /\ element.x_position >= 100
    /\ is_heading
    /\ level = "H2"

\* C11: for fixed font statistics and with text, bold flag and x position
\* held fixed, the confidence of is_likely_heading does not decrease when the
\* font size grows: of two calls of the loop that differ in font size only,
\* the one with the larger size has the larger or equal confidence.
C11_ConfidenceMonotoneInFontSize ==
    (cpc \in {"classified", "done"} /\ previous # <<>>) =>
        LET before == previous[1]
        IN  (/\ before.element.text = element.text
             /\ before.element.is_bold = element.is_bold
             /\ before.element.x_position = element.x_position)
            => /\ before.element.font_size <= element.font_size
                   => before.confidence <= confidence
               /\ before.element.font_size >= element.font_size
                   => before.confidence >= confidence

\* C11 witness: two calls that differ in font size only, the second with the
\* larger size crossing a threshold, so that its confidence is larger.
C11_Witness ==
    /\ cpc = "done"
    /\ previous # <<>>
    /\ previous[1].element.text = element.text
    /\ previous[1].element.is_bold = element.is_bold
    /\ previous[1].element.font_size < element.font_size
    /\ previous[1].confidence < confidence

\* the ranked results titled t whose base similarity is 0.50
C12_Ranked(t) ==
    {i \in 1..Len(ranked_results) :
        /\ ranked_results[i].section_title = t
        /\ ranked_results[i].base_similarity_score = 50000}

\* C12: with persona "Food Contractor" and base similarity 0.50, a chunk
\* titled "Menu Planning" gets the final score 0.65 and a chunk titled
\* "Introduction" gets 0.35, and rank_chunks puts the former before the
\* latter.
C12_MenuPlanningAboveIntroduction ==
    collection.persona = "Food Contractor" =>
        /\ \A i \in C12_Ranked("Menu Planning") : ranked_results[i].final_score = 65000
        /\ \A j \in C12_Ranked("Introduction") : ranked_results[j].final_score = 35000
        /\ \A i \in C12_Ranked("Menu Planning"), j \in C12_Ranked("Introduction") :
               /\ i < j
               /\ ranked_results[i].importance_rank < ranked_results[j].importance_rank

\* C12 witness: rank_chunks has ranked, for a Food Contractor, a chunk titled
\* "Menu Planning" and a chunk titled "Introduction", both of base
\* similarity 0.50, that came in the other order.
C12_Witness ==
    /\ rpc = "filtering"
    /\ collection.persona = "Food Contractor"
    /\ C12_Ranked("Menu Planning") # {}
    /\ C12_Ranked("Introduction") # {}
    /\ \E a, b \in 1..Len(all_chunks) :
           /\ a < b
           /\ all_chunks[a].section_title = "Introduction"
           /\ all_chunks[b].section_title = "Menu Planning"

\* C13: the x0.70 penalty is waived for a title that is exactly "conclusion"
\* whenever the persona contains "researcher" (case-insensitively), so that
\* the score is the base score times the Researcher boost 1.3 that the
\* keyword "conclusion" earns; every other generic title is penalised.
C13_WaivedForEveryResearcher ==
    LET title_lower == Strip(Lower(section_title))
        boosted     == IF Boosted(title_lower, persona)
                       THEN ACTIONABLE_KEYWORD_BOOSTS[BestMatchPersona(persona)].boost_factor
                       ELSE 100
    IN  (spc = "returned" /\ title_lower \in PENALIZED_TITLES) =>
            IF Contains("researcher", Lower(persona)) /\ title_lower = "conclusion"
            THEN final_score = (base_score * 130) \div 100
            ELSE final_score = (((base_score * 70) \div 100) * boosted) \div 100

\* a ranking run whose collection has no model at any of model_paths
C14_NoModel == collection.has_input /\ collection.models = {}

\* C14 as stated: the model is looked for at startup, before any document is
\* parsed, and without a model the run ends in the fatal state and writes no
\* output, whatever the documents contain (here: on every collection that
\* lists at least one document, runs that end with the parser's exception
\* left aside).
C14_ModelCheckedAtStartup ==
    (C14_NoModel /\ collection.documents # <<>>) =>
        /\ all_chunks = <<>>
        /\ rpc \in {"returned", "fatal", "written"} => rpc = "fatal"
        /\ output_data = <<>>

\* C14 amended: the model is looked for after the loop over the documents,
\* and only if a chunk was extracted.  Without a model no output is written;
\* the run ends in the fatal state exactly when the loop ran to its end with
\* at least one chunk, it returns when the loop ended without a chunk, and it
\* ends with the parser's exception when a document raised.
C14_ModelCheckedAfterParsing ==
    C14_NoModel =>
        /\ output_data = <<>>
        /\ rpc \in {"start", "parsing", "returned", "crashed", "fatal"}
        /\ rpc = "fatal" => (doc_i > Len(collection.documents) /\ all_chunks # <<>>)
        /\ rpc = "returned" => (doc_i > Len(collection.documents) /\ all_chunks = <<>>)
        /\ rpc = "crashed" =>
               /\ doc_i <= Len(collection.documents)
               /\ parse_pdf_to_chunks(collection.documents[doc_i].pdf,
                                      collection.documents[doc_i].filename).raised

\* C14 witness: without a model, the run reached the fatal state after it
\* had parsed two documents and collected their chunks.
C14_Witness ==
    /\ C14_NoModel
    /\ rpc = "fatal"
    /\ Len(collection.documents) >= 2
    /\ \E a, b \in 1..Len(all_chunks) : all_chunks[a].document # all_chunks[b].document

\* the entry written for an accepted heading
C15_Entry(h) == [level |-> h.level, text |-> h.text, page |-> h.page]

\* the key post_process_outline compares
C15_Key(text) == Strip(Lower(text))

\* the accepted headings of file k that no earlier accepted heading equals
\* in key
C15_First(k) ==
    With(SubSeq([i \in 1..Len(found[k].raw) |-> C15_Key(found[k].raw[i].text)],
                1, Len(found[k].raw)),
         LAMBDA key : {i \in 1..Len(key) : \A j \in 1..(i - 1) : key[j] # key[i]})

\* C15 as stated: on the layout path two accepted headings are duplicates
\* exactly when they agree on level, lowercased text and page: an accepted
\* heading is in the outline (cap aside) unless an earlier accepted heading
\* has its level, lowercased text and page, so that headings of the same
\* text on different pages or of different levels are both there.
C15_DuplicatesAgreeOnTriple ==
    \A k \in 1..Len(outputs) :
        (found[k].path = "layout" /\ Len(outputs[k].outline) < 50) =>
            \A i \in 1..Len(found[k].raw) :
                LET h == found[k].raw[i]
                IN  (\A j \in 1..(i - 1) :
                        \/ Lower(found[k].raw[j].text) # Lower(h.text)
                        \/ found[k].raw[j].level # h.level
                        \/ found[k].raw[j].page # h.page)
                    => \E e \in 1..Len(outputs[k].outline) :
                           outputs[k].outline[e] = C15_Entry(h)

\* C15 amended: on the layout path two accepted headings are duplicates
\* exactly when they agree on the lowercased, stripped text, whatever their
\* levels and pages, and the first one found is kept: the outline (cap
\* aside) holds, for every accepted heading, exactly one entry of that text,
\* which is the entry of the first accepted heading of that text.
C15_DuplicatesAgreeOnText ==
    \A k \in 1..Len(outputs) :
        (found[k].path = "layout" /\ Len(outputs[k].outline) < 50) =>
            With(C15_First(k), LAMBDA first :
                /\ Len(outputs[k].outline) = Cardinality(first)
                /\ \A i \in first :
                       \E e \in 1..Len(outputs[k].outline) :
                           outputs[k].outline[e] = C15_Entry(found[k].raw[i])
                /\ \A e \in 1..Len(outputs[k].outline) :
                       \E i \in first :
                           outputs[k].outline[e] = C15_Entry(found[k].raw[i]))

\* C15 witness: main is done and, for a file of the layout path, an
\* accepted heading of a text already accepted on an earlier page has no
\* entry in the outline.
C15_Witness ==
    /\ opc = "done"
    /\ \E k \in 1..Len(outputs) :
        /\ found[k].path = "layout"
        /\ \E i, j \in 1..Len(found[k].raw) :
            /\ i < j
            /\ C15_Key(found[k].raw[i].text) = C15_Key(found[k].raw[j].text)
            /\ found[k].raw[i].page < found[k].raw[j].page
            /\ \A e \in 1..Len(outputs[k].outline) :
                   outputs[k].outline[e] # C15_Entry(found[k].raw[j])

\* h comes before g, or at the same place, by (page, y_position)
C16_NotAfter(h, g) ==
    \/ h.page < g.page
    \/ (h.page = g.page /\ h.y_position <= g.y_position)

\* the pages of an outline never decrease
C16_PagesAscend(entries) ==
    \A a, b \in 1..Len(entries) : a < b => entries[a].page <= entries[b].page

\* for each entry of file k, the accepted heading it was written for (0 if
\* none), among those that are the first of their text
C16_SourceOf(k, first) ==
    SubSeq([e \in 1..Len(outputs[k].outline) |->
               IF \E i \in first : C15_Entry(found[k].raw[i]) = outputs[k].outline[e]
               THEN CHOOSE i \in first :
                        C15_Entry(found[k].raw[i]) = outputs[k].outline[e]
               ELSE 0], 1, Len(outputs[k].outline))

\* the outline of file k is the first 50, by (page, y_position), of the
\* accepted headings that are the first of their text, in that order
C16_FirstFiftySorted(k) ==
    With(C15_First(k), LAMBDA first :
        With(C16_SourceOf(k, first), LAMBDA src :
            LET raw == found[k].raw
                n   == Len(src)
            IN  /\ n <= 50
                /\ \A e \in 1..n : src[e] # 0
                /\ \A a, b \in 1..n : a < b => C16_NotAfter(raw[src[a]], raw[src[b]])
                /\ \A i \in first :
                       (\A e \in 1..n : src[e] # i) =>
                           /\ n = 50
                           /\ \A e \in 1..n : C16_NotAfter(raw[src[e]], raw[i])))

\* C16 as stated: every outline, from layout inference or from the native
\* bookmarks, has at most 50 entries in non-decreasing page order (and by
\* vertical position within a page), and of more than 50 headings the first
\* 50 in that order are kept.
C16_EveryOutlineCappedAndSorted ==
    \A k \in 1..Len(outputs) :
        /\ Len(outputs[k].outline) <= 50
        /\ C16_PagesAscend(outputs[k].outline)
        /\ found[k].path = "layout" => C16_FirstFiftySorted(k)

\* C16 amended: an outline built by layout inference has at most 50 entries,
\* in non-decreasing page order and by vertical position within a page, and
\* of more than 50 headings (duplicates of text dropped) the first 50 in that
\* order are kept; an outline taken from the native bookmarks has one entry
\* per bookmark in the order of the bookmarks, neither sorted nor capped.
C16_LayoutOutlineCappedAndSorted ==
    \A k \in 1..Len(outputs) :
        /\ found[k].path = "layout" =>
               /\ Len(outputs[k].outline) <= 50
               /\ C16_PagesAscend(outputs[k].outline)
               /\ C16_FirstFiftySorted(k)
        /\ found[k].path = "toc" =>
               /\ Len(outputs[k].outline) = Len(pdf_files[k].doc.toc)
               /\ \A i \in 1..Len(outputs[k].outline) :
                      /\ outputs[k].outline[i].page = pdf_files[k].doc.toc[i].page
                      /\ outputs[k].outline[i].level =
                             IF pdf_files[k].doc.toc[i].level <= 1 THEN "H1"
                             ELSE IF pdf_files[k].doc.toc[i].level <= 2 THEN "H2"
                             ELSE "H3"

\* C16 witness: main is done and, for a file of the layout path with more
\* than 50 accepted headings of different texts, the outline has 50 entries
\* and lacks a heading found before one that it holds.
C16_Witness ==
    /\ opc = "done"
    /\ \E k \in 1..Len(outputs) :
        /\ found[k].path = "layout"
        /\ Len(outputs[k].outline) = 50
        /\ Cardinality(C15_First(k)) > 50
        /\ \E i, j \in 1..Len(found[k].raw) :
            /\ i < j
            /\ \A e \in 1..50 : outputs[k].outline[e] # C15_Entry(found[k].raw[i])
            /\ \E e \in 1..50 : outputs[k].outline[e] = C15_Entry(found[k].raw[j])

\* a result without its rank
C17_Unranked(r) ==
    [document |-> r.document, page_number |-> r.page_number,
     section_title |-> r.section_title, text |-> r.text,
     base_similarity_score |-> r.base_similarity_score,
     final_score |-> r.final_score]

\* final_results from index i on is a subsequence of ranked_results from
\* index j on, ranks aside
RECURSIVE C17_InRankedOrder(_, _)
C17_InRankedOrder(i, j) ==
    IF i > Len(final_results) THEN TRUE
    ELSE IF j > Len(ranked_results) THEN FALSE
    ELSE IF C17_Unranked(final_results[i]) = C17_Unranked(ranked_results[j])
    THEN C17_InRankedOrder(i + 1, j + 1)
    ELSE C17_InRankedOrder(i, j + 1)

\* C17: after the diversity and top-N filter the i-th kept result has
\* importance_rank i, in the results and in the written extracted_sections,
\* whatever rank rank_chunks gave it, and the kept results are in the
\* relative order of the ranked sequence.
C17_RanksAreOneToN ==
    rpc = "written" =>
        /\ \A i \in 1..Len(final_results) :
               /\ final_results[i].importance_rank = i
               /\ output_data.extracted_sections[i].importance_rank = i
        /\ Len(output_data.extracted_sections) = Len(final_results)
        /\ C17_InRankedOrder(1, 1)

\* C17 witness: the output is written and some kept result stands at a place
\* other than the one rank_chunks gave it, a result before it having been
\* filtered out.
C17_Witness ==
    /\ rpc = "written"
    /\ Len(final_results) >= 2
    /\ \E i \in 1..Len(final_results) :
           /\ C17_Unranked(final_results[i]) # C17_Unranked(ranked_results[i])
           /\ \E j \in (i + 1)..Len(ranked_results) :
                  /\ C17_Unranked(final_results[i]) = C17_Unranked(ranked_results[j])
                  /\ ranked_results[j].importance_rank = j

====
